---- MODULE Spec2Model ----
(***************************************************************************)
(* Model of the nursing-documentation backend.                             *)
(*                                                                         *)
(* Part 1: utils/response_parser.py, parse_soap_response.                  *)
(*                                                                         *)
(* A Python str is modelled as a sequence of symbols.  A symbol stands for *)
(* one character the patterns look at, or for one run of characters that   *)
(* the patterns only ever match as a whole word.  The module is ASCII, so  *)
(* each symbol is written by an ASCII name:                                *)
(*                                                                         *)
(*   "nl" = line feed          "sp" = space        "cr" = carriage return  *)
(*   "**"  "###"  "---"        the Markdown tokens themselves              *)
(*   "S" "s" "O" "o" "A" "a" "P" "p"   the Latin section codes             *)
(*   "FW(" "FW)" "FW:"         the full-width ( ) :   "(" ")" ":" ASCII    *)
(*   "[[" "]]"                 the lenticular brackets                     *)
(*   "shukan"   = subjective       (S heading word)                        *)
(*   "kyakkan"  = objective        (O heading word)                        *)
(*   "assessment"                  (A heading word)                        *)
(*   "keikaku"  = plan             (P heading word)                        *)
(*   "houmon_jouhou"          = visit information                          *)
(*   "houmon_kango_keikakusho" = home-visit nursing care plan document     *)
(*   "kango_keikakusho"       = nursing care plan document                 *)
(*   "shoujou_suii"           = symptom progression                        *)
(*   "risk_hyouka"            = risk assessment                            *)
(*   "jisatsu_tagai_fukuyaku" = suicide / harm to others / medication      *)
(*   "haikei_youin"           = background factors                         *)
(*   "jikai_kansatsu_point"   = next observation points                    *)
(*   "honjitsu_enjo"          = care given today                           *)
(*   "jikai_houshin"          = policy from next time on                   *)
(*   "chouki_mokuhyou"        = long-term goal                             *)
(*   "tanki_mokuhyou"         = short-term goal                            *)
(*   "kango_enjo_houshin"     = nursing care policy                        *)
(*   "kanja_ochitsuki" "hyoujou_odayaka"  the two sentences of the         *)
(*                            boundary scenario; "t_*", "more", "vdate",   *)
(*                            "vx", "w" narrative words; "x" one more      *)
(*                            character inside a heading                   *)
(***************************************************************************)
EXTENDS Integers, Sequences, FiniteSets, Bags, TLC

\* one call of parse_soap_response: its argument, its place and its locals
VARIABLES doc, text, pc, normalized, cleaned_text, soap_text, plan_text,
          soap_output, plan_output

\* several calls of parse_soap_response at once: the objects allocated, and
\* per call its place, its locals and what its caller did with the result
VARIABLES heap, calls

parser_vars == <<doc, text, pc, normalized, cleaned_text, soap_text, plan_text,
                 soap_output, plan_output>>

\* one request to POST /generate: the request body, the place of the handler,
\* its locals, the soap_records table, the log, the HTTP response, and the
\* calls made so far in their order
VARIABLES request, handler_pc, output, parsed_data, soap_records, log, response,
          trace

\* one call of calculate_visit_duration_minutes: the times it is given, its
\* place, its locals and what it returns
VARIABLES times, start_time, end_time, duration_pc, start_parts, end_parts,
          duration

\* one day cell of the calendar of the report PDF: the marks of the day, the
\* place of build_calendar_weeks, and the string it puts in the cell
VARIABLES marks_for_day, pdf_pc, marks_str

\* the visit marks of one report: the soap_records rows of the user, the
\* reports row, the report_visit_marks rows, and one run of
\* generate_visit_marks: its place, what it fetched, what it is about to
\* insert, and how it was called
VARIABLES visits, report, report_visit_marks, marks_pc, soap_response,
          marks_to_insert, run

\* the module global _ai_service of services/ai_service.py, the AIService
\* instances built so far, the instances that calls of get_ai_service have
\* returned, and the place of each request thread inside get_ai_service
VARIABLES ai_service, instances, returned, threads

\* one run of auto_evaluate_plan: the plan_evaluations rows of the plan, the
\* soap_records rows of its patient, the place of the run, the plan it fetched,
\* the records it fetched, the record the loop is at, and its two locals
VARIABLES plan_evaluations, plan_visits, evaluate_pc, plan, plan_records,
          record_index, evaluation_results, updated_evaluations

concurrent_vars == <<heap, calls>>

ai_vars == <<ai_service, instances, returned, threads>>

plan_vars == <<plan_evaluations, plan_visits, evaluate_pc, plan, plan_records,
               record_index, evaluation_results, updated_evaluations>>

report_vars == <<visits, report, report_visit_marks, marks_pc, soap_response,
                 marks_to_insert, run>>

pdf_vars == <<marks_for_day, pdf_pc, marks_str>>

duration_vars == <<times, start_time, end_time, duration_pc, start_parts,
                   end_parts, duration>>

handler_vars == <<request, handler_pc, output, parsed_data, soap_records, log,
                  response, trace>>

vars == <<parser_vars, concurrent_vars, handler_vars, duration_vars, pdf_vars,
          report_vars, ai_vars, plan_vars>>

\* what a step of one part of the model leaves alone
outside_parser == <<concurrent_vars, handler_vars, duration_vars, pdf_vars, report_vars,
    ai_vars, plan_vars>>
outside_concurrent == <<parser_vars, handler_vars, duration_vars, pdf_vars, report_vars,
    ai_vars, plan_vars>>
outside_handler == <<parser_vars, concurrent_vars, duration_vars, pdf_vars, report_vars,
    ai_vars, plan_vars>>
outside_duration == <<parser_vars, concurrent_vars, handler_vars, pdf_vars, report_vars,
    ai_vars, plan_vars>>
outside_report == <<parser_vars, concurrent_vars, handler_vars, duration_vars, pdf_vars,
    ai_vars, plan_vars>>
outside_pdf == <<parser_vars, concurrent_vars, handler_vars, duration_vars, report_vars,
    ai_vars, plan_vars>>

outside_ai == <<parser_vars, concurrent_vars, handler_vars, duration_vars, pdf_vars,
               report_vars, plan_vars>>
outside_plan == <<parser_vars, concurrent_vars, handler_vars, duration_vars, pdf_vars,
                 report_vars, ai_vars>>

\* the parts of the model that a specification does not follow stay as they are
ParserIdle ==
    /\ doc = <<>> /\ text = <<>> /\ pc = "idle"
    /\ normalized = <<>> /\ cleaned_text = <<>> /\ soap_text = <<>> /\ plan_text = <<>>
    /\ soap_output = <<>> /\ plan_output = <<>>

ConcurrentIdle == heap = <<>> /\ calls = <<>>

HandlerIdle ==
    /\ request = <<>> /\ handler_pc = "idle" /\ output = <<>> /\ parsed_data = <<>>
    /\ soap_records = <<>> /\ log = <<>> /\ response = <<>> /\ trace = <<>>

DurationIdle ==
    /\ times = <<>> /\ start_time = <<>> /\ end_time = <<>> /\ duration_pc = "idle"
    /\ start_parts = <<>> /\ end_parts = <<>> /\ duration = <<>>

PdfIdle == marks_for_day = <<>> /\ pdf_pc = "idle" /\ marks_str = <<>>

ReportIdle ==
    /\ visits = <<>> /\ report = <<>> /\ report_visit_marks = <<>> /\ marks_pc = "off"
    /\ soap_response = <<>> /\ marks_to_insert = <<>> /\ run = <<>>

AiIdle == ai_service = 0 /\ instances = 0 /\ returned = {} /\ threads = <<>>

PlanIdle ==
    /\ plan_evaluations = <<>> /\ plan_visits = <<>> /\ evaluate_pc = "off"
    /\ plan = <<>> /\ plan_records = <<>> /\ record_index = 0
    /\ evaluation_results = <<>> /\ updated_evaluations = <<>>

\* each part of the model runs with the other parts at rest
ParserAlone ==
    ConcurrentIdle /\ HandlerIdle /\ DurationIdle /\ PdfIdle /\ ReportIdle
    /\ AiIdle /\ PlanIdle

ConcurrentAlone ==
    ParserIdle /\ HandlerIdle /\ DurationIdle /\ PdfIdle /\ ReportIdle
    /\ AiIdle /\ PlanIdle

HandlerAlone ==
    ParserIdle /\ ConcurrentIdle /\ DurationIdle /\ PdfIdle /\ ReportIdle
    /\ AiIdle /\ PlanIdle

DurationAlone ==
    ParserIdle /\ ConcurrentIdle /\ HandlerIdle /\ PdfIdle /\ ReportIdle
    /\ AiIdle /\ PlanIdle

PdfAlone ==
    ParserIdle /\ ConcurrentIdle /\ HandlerIdle /\ DurationIdle /\ ReportIdle
    /\ AiIdle /\ PlanIdle

ReportAlone ==
    ParserIdle /\ ConcurrentIdle /\ HandlerIdle /\ DurationIdle /\ PdfIdle
    /\ AiIdle /\ PlanIdle

AiAlone ==
    ParserIdle /\ ConcurrentIdle /\ HandlerIdle /\ DurationIdle /\ PdfIdle
    /\ ReportIdle /\ PlanIdle

PlanAlone ==
    ParserIdle /\ ConcurrentIdle /\ HandlerIdle /\ DurationIdle /\ PdfIdle
    /\ ReportIdle /\ AiIdle

-----------------------------------------------------------------------------
(* Strings *)

\* \s of the re module, restricted to the symbols of the model
WS == {"nl", "sp", "cr"}

RECURSIVE LStrip(_)
LStrip(s) == IF s # <<>> /\ Head(s) \in WS THEN LStrip(Tail(s)) ELSE s

RECURSIVE RStrip(_)
RStrip(s) ==
    IF s # <<>> /\ s[Len(s)] \in WS THEN RStrip(SubSeq(s, 1, Len(s) - 1)) ELSE s

\* str.strip()
Strip(s) == RStrip(LStrip(s))

\* m occurs in t at position i
OccursAt(t, m, i) ==
    /\ i >= 1
    /\ i + Len(m) - 1 <= Len(t)
    /\ \A k \in 1..Len(m) : t[i + k - 1] = m[k]

\* `m in t`
Contains(t, m) == \E i \in 1..(Len(t) + 1) : OccursAt(t, m, i)

\* t.index(m): the first position of m in t; 0 stands for ValueError
Index(t, m) ==
    IF Contains(t, m)
    THEN CHOOSE i \in 1..(Len(t) + 1) :
             OccursAt(t, m, i) /\ \A j \in 1..(i - 1) : ~OccursAt(t, m, j)
    ELSE 0

Min(S) == CHOOSE x \in S : \A y \in S : x <= y

\* text.replace("\r\n", "\n"): the leftmost "cr" "nl" becomes "nl", and the
\* replacement goes on after it
RECURSIVE ReplaceCRLF(_)
ReplaceCRLF(s) ==
    LET hits == {i \in 1..(Len(s) - 1) : s[i] = "cr" /\ s[i + 1] = "nl"}
    IN IF hits = {} THEN s
       ELSE SubSeq(s, 1, Min(hits) - 1) \o <<"nl">>
            \o ReplaceCRLF(SubSeq(s, Min(hits) + 2, Len(s)))

-----------------------------------------------------------------------------
(* Regular expressions: a pattern is a sequence of items, matched by a      *)
(* backtracking matcher with the priorities of the re module.               *)

One(c)  == [q |-> "1", c |-> c]          \* one symbol of class c
Opt(c)  == [q |-> "?", c |-> c]          \* c?   greedy
Star(c) == [q |-> "*", c |-> c]          \* c*   greedy
Plus(c) == [q |-> "+", c |-> c]          \* c+   greedy
Grp     == [q |-> "grp", c |-> {}]       \* ([\s\S]+?)  the lazy capture group
LazyAny == [q |-> "lazy", c |-> {}]      \* [\s\S]*?
La(alts) == [q |-> "la", c |-> alts]     \* (?=alt1|alt2|...|$)

RECURSIVE Lit(_)
Lit(s) == IF s = <<>> THEN <<>> ELSE <<One({Head(s)})>> \o Lit(Tail(s))

\* the end of the run of symbols of class c that starts at i
RECURSIVE RunEnd(_, _, _)
RunEnd(t, i, c) == IF i <= Len(t) /\ t[i] \in c THEN RunEnd(t, i + 1, c) ELSE i

\* $ without re.MULTILINE: the end, or just before a final line feed
Dollar(t, i) == i = Len(t) + 1 \/ (i = Len(t) /\ t[i] = "nl")

NoMatch == <<0, 0>>

RECURSIVE M(_, _, _, _, _), Greedy(_, _, _, _, _, _), Lazy(_, _, _, _, _)

\* pat[k..] matched at position i of t, with the capture group starting at gs
\* (0: not entered): <<group start, position after the match>> of the first
\* match in backtracking order, or NoMatch
M(t, i, pat, k, gs) ==
    IF k > Len(pat) THEN <<gs, i>>
    ELSE LET it == pat[k] IN
      CASE it.q = "1" ->
             IF i <= Len(t) /\ t[i] \in it.c THEN M(t, i + 1, pat, k + 1, gs)
             ELSE NoMatch
        [] it.q = "?" ->
             LET r == IF i <= Len(t) /\ t[i] \in it.c
                      THEN M(t, i + 1, pat, k + 1, gs) ELSE NoMatch
             IN IF r # NoMatch THEN r ELSE M(t, i, pat, k + 1, gs)
        [] it.q = "*" -> Greedy(t, i, RunEnd(t, i, it.c), pat, k, gs)
        [] it.q = "+" -> Greedy(t, i + 1, RunEnd(t, i, it.c), pat, k, gs)
        [] it.q = "grp" -> Lazy(t, i + 1, pat, k, i)
        [] it.q = "lazy" -> Lazy(t, i, pat, k, gs)
        [] it.q = "la" ->
             IF Dollar(t, i) \/ \E alt \in it.c : M(t, i, alt, 1, 0) # NoMatch
             THEN M(t, i, pat, k + 1, gs)
             ELSE NoMatch

\* a greedy repetition that may end anywhere in lo..j: the longest first
Greedy(t, lo, j, pat, k, gs) ==
    IF j < lo THEN NoMatch
    ELSE LET r == M(t, j, pat, k + 1, gs)
         IN IF r # NoMatch THEN r ELSE Greedy(t, lo, j - 1, pat, k, gs)

\* a lazy repetition of any symbol that ends at lo or later: the shortest first
Lazy(t, lo, pat, k, gs) ==
    LET ends == {e \in lo..(Len(t) + 1) : M(t, e, pat, k + 1, gs) # NoMatch}
    IN IF ends = {} THEN NoMatch ELSE M(t, Min(ends), pat, k + 1, gs)

\* the leftmost position from i on at which pat matches; 0 when there is none
SearchPos(t, pat, i) ==
    LET starts == {j \in i..(Len(t) + 1) : M(t, j, pat, 1, 0) # NoMatch}
    IN IF starts = {} THEN 0 ELSE Min(starts)

\* re.search(pattern, t): the match at the leftmost position that has one
Search(t, pat) ==
    LET j == SearchPos(t, pat, 1) IN IF j = 0 THEN NoMatch ELSE M(t, j, pat, 1, 0)

\* match.group(1)
Group1(t, m) == SubSeq(t, m[1], m[2] - 1)

\* re.sub(pattern, "", t) for a pattern that matches no empty string: the
\* leftmost match from i on is cut out, and the search goes on after it
RECURSIVE SubFrom(_, _, _)
SubFrom(t, pat, i) ==
    LET j == SearchPos(t, pat, i)
    IN IF j = 0 THEN SubSeq(t, i, Len(t))
       ELSE SubSeq(t, i, j - 1) \o SubFrom(t, pat, M(t, j, pat, 1, 0)[2])

Sub(t, pat) == SubFrom(t, pat, 1)

\* the first pattern of a chain that matches: <<pattern index, match>>
RECURSIVE FirstMatch(_, _, _)
FirstMatch(t, pats, n) ==
    IF n > Len(pats) THEN <<0, NoMatch>>
    ELSE LET r == Search(t, pats[n])
         IN IF r # NoMatch THEN <<n, r>> ELSE FirstMatch(t, pats, n + 1)

-----------------------------------------------------------------------------
(* The patterns of parse_soap_response.  re.IGNORECASE only matters for the *)
(* Latin section codes: Ci gives both cases.                                *)

\* a slip: re.IGNORECASE is not passed, the section codes match as written
Ci_exact(x) == One({x})

Ci(x) == One(CASE x = "S" -> {"S", "s"} [] x = "O" -> {"O", "o"}
               [] x = "A" -> {"A", "a"} [] x = "P" -> {"P", "p"})
LParen == One({"FW(", "("})               \* [（(]
RParen == One({"FW)", ")"})               \* [）)]
Colon  == {"FW:", ":"}                    \* [:：]
Bold   == One({"**"})                     \* \*\*
NlWs   == <<One({"nl"}), Star(WS)>>       \* \n\s*
WsNl   == <<Star(WS), Plus({"nl"})>>      \* \s*\n+
WsColonWsNl == <<Star(WS), Opt(Colon), Star(WS), Plus({"nl"})>>  \* \s*[:：]?\s*\n+

\* X[（(]word[）)]
Heading(x, word) == <<Ci(x), LParen, One({word}), RParen>>
\* \*\*X[（(]word[）)]\*\*
BoldHeading(x, word) == <<Bold>> \o Heading(x, word) \o <<Bold>>
\* 【word】
Bracket(word) == Lit(<<"[[", word, "]]">>)

\* r"【訪問情報】[\s\S]*?(?=\n\s*【|###|$)"
visit_info_pattern ==
    Bracket("houmon_jouhou")
    \o <<LazyAny, La({NlWs \o Lit(<<"[[">>), Lit(<<"###">>)})>>

plan_marker1 == <<"###", "sp", "houmon_kango_keikakusho">>
plan_marker2 == <<"[[", "kango_keikakusho", "]]">>

\* \n\s*###\s*訪問看護計画書  and  \n\s*【看護計画書】
LaMarker1 == NlWs \o <<One({"###"}), Star(WS), One({"houmon_kango_keikakusho"})>>
LaMarker2 == NlWs \o Bracket("kango_keikakusho")

\* a slip: the lookahead to the O heading is lost, S runs to the end
s_patterns_to_end == <<
    BoldHeading("S", "shukan") \o WsNl \o <<Grp, La({})>>,
    Heading("S", "shukan") \o WsColonWsNl \o <<Grp, La({})>> >>

s_patterns == <<
    BoldHeading("S", "shukan") \o WsNl
      \o <<Grp, La({NlWs \o BoldHeading("O", "kyakkan")})>>,
    Heading("S", "shukan") \o WsColonWsNl
      \o <<Grp, La({NlWs \o Heading("O", "kyakkan")})>> >>

o_patterns == <<
    BoldHeading("O", "kyakkan") \o WsNl
      \o <<Grp, La({NlWs \o BoldHeading("A", "assessment")})>>,
    Heading("O", "kyakkan") \o WsColonWsNl
      \o <<Grp, La({NlWs \o Heading("A", "assessment")})>> >>

a_patterns == <<
    BoldHeading("A", "assessment") \o WsNl
      \o <<Grp, La({NlWs \o <<One({"###"}), Star(WS)>> \o Heading("P", "keikaku"),
                    NlWs \o BoldHeading("P", "keikaku")})>>,
    Heading("A", "assessment") \o WsColonWsNl
      \o <<Grp, La({NlWs \o Heading("P", "keikaku")})>> >>

LaBracket == NlWs \o Lit(<<"[[">>)        \* \n\s*【

\* the four sub-sections of A, in dictionary order
a_keys == <<"shoujou_suii", "risk_hyouka", "haikei_youin", "jikai_kansatsu_point">>

\* a slip: each sub-section ends at the heading of the next one in the
\* order of the dictionary, the last one at the end, instead of at any
\* bracket heading
sections_chained(key) ==
    (CASE key = "risk_hyouka" ->
            Lit(<<"[[", "risk_hyouka">>)
            \o <<LParen, One({"jisatsu_tagai_fukuyaku"}), Opt({"FW)", ")"})>>
            \o Lit(<<"]]">>)
       [] OTHER -> Bracket(key))
    \o WsNl
    \o <<Grp, La(CASE key = "shoujou_suii" -> {NlWs \o Lit(<<"[[", "risk_hyouka">>)}
                   [] key = "risk_hyouka" -> {NlWs \o Bracket("haikei_youin")}
                   [] key = "haikei_youin" -> {NlWs \o Bracket("jikai_kansatsu_point")}
                   [] OTHER -> {})>>

sections(key) ==
    (CASE key = "risk_hyouka" ->
            \* 【リスク評価[（(]自殺・他害・服薬[）)]?】
            Lit(<<"[[", "risk_hyouka">>)
            \o <<LParen, One({"jisatsu_tagai_fukuyaku"}), Opt({"FW)", ")"})>>
            \o Lit(<<"]]">>)
       [] OTHER -> Bracket(key))
    \o WsNl \o <<Grp, La({LaBracket})>>

p_patterns == <<
    <<One({"###"}), Star(WS)>> \o Heading("P", "keikaku") \o WsNl
      \o <<Grp, La({LaMarker1, LaMarker2})>>,
    BoldHeading("P", "keikaku") \o WsNl
      \o <<Grp, La({LaMarker1, LaMarker2})>>,
    Heading("P", "keikaku") \o WsColonWsNl
      \o <<Grp, La({NlWs \o Lit(<<"houmon_kango_keikakusho">>), LaMarker2})>> >>

p_keys == <<"honjitsu_enjo", "jikai_houshin">>

LaRule == NlWs \o Lit(<<"---">>)          \* \n\s*---

p_sections(key) ==
    IF key = "honjitsu_enjo"
    THEN <<Bold>> \o Bracket("honjitsu_enjo") \o <<Bold>> \o WsNl
         \o <<Grp, La({NlWs \o <<Bold>> \o Bracket("jikai_houshin") \o <<Bold>>,
                       NlWs \o Bracket("jikai_houshin"),
                       LaRule, LaMarker1, LaMarker2})>>
    ELSE <<Bold>> \o Bracket("jikai_houshin") \o <<Bold>> \o WsNl
         \o <<Grp, La({LaRule, LaMarker1, LaMarker2})>>

\* a slip: the fallback is the bold pattern again, plain headings are not tried
fallback_pattern_bold_only(key) == p_sections(key)

fallback_pattern(key) ==
    IF key = "honjitsu_enjo"
    THEN Bracket("honjitsu_enjo") \o WsNl
         \o <<Grp, La({NlWs \o Bracket("jikai_houshin"),
                       LaRule, LaMarker1, LaMarker2})>>
    ELSE Bracket("jikai_houshin") \o WsNl
         \o <<Grp, La({LaRule, LaMarker1, LaMarker2})>>

\* r'\n\s*---\s*$'
trailing_rule_pattern == LaRule \o <<Star(WS), La({})>>

plan_keys == <<"chouki_mokuhyou", "tanki_mokuhyou", "kango_enjo_houshin">>

\* rf"\*\*{key}[:：]\*\*\s*\n+([\s\S]+?)(?=\n\s*\*\*{next_key}[:：]\*\*|$)", and
\* for the last key the lookahead (?=\n\s*【|$)
bold_pattern(i) ==
    <<Bold, One({plan_keys[i]}), One(Colon), Bold>> \o WsNl
    \o <<Grp, La({IF i + 1 <= Len(plan_keys)
                  THEN NlWs \o <<Bold, One({plan_keys[i + 1]}), One(Colon), Bold>>
                  ELSE LaBracket})>>

\* a slip: every plain field ends at a bracket heading or the end, not at the
\* heading of the next field
plain_pattern_to_bracket(i) ==
    <<One({plan_keys[i]}), One(Colon)>> \o WsNl \o <<Grp, La({LaBracket})>>

\* rf"{key}[:：]\s*\n+([\s\S]+?)(?=\n\s*{next_key}[:：]|$)", and for the last key
\* the lookahead (?=\n\s*【|$)
plain_pattern(i) ==
    <<One({plan_keys[i]}), One(Colon)>> \o WsNl
    \o <<Grp, La({IF i + 1 <= Len(plan_keys)
                  THEN NlWs \o <<One({plan_keys[i + 1]}), One(Colon)>>
                  ELSE LaBracket})>>

-----------------------------------------------------------------------------
(* The steps of parse_soap_response, as functions of the text they read.    *)

\* a slip: a placeholder left as the default of "o"
soap_default_placeholder ==
    [s |-> <<>>, o |-> <<"w">>,
     a |-> [shoujou_suii |-> <<>>, risk_hyouka |-> <<>>, haikei_youin |-> <<>>,
            jikai_kansatsu_point |-> <<>>],
     p |-> [honjitsu_enjo |-> <<>>, jikai_houshin |-> <<>>]]

soap_default ==
    [s |-> <<>>, o |-> <<>>,
     a |-> [shoujou_suii |-> <<>>, risk_hyouka |-> <<>>, haikei_youin |-> <<>>,
            jikai_kansatsu_point |-> <<>>],
     p |-> [honjitsu_enjo |-> <<>>, jikai_houshin |-> <<>>]]

plan_default ==
    [chouki_mokuhyou |-> <<>>, tanki_mokuhyou |-> <<>>, kango_enjo_houshin |-> <<>>]

\* normalized = text.replace("\r\n", "\n").strip()
Normalize(t) == Strip(ReplaceCRLF(t))

\* cleaned_text = re.sub(visit_info_pattern, "", normalized).strip()
RemoveVisitInfo(t) == Strip(Sub(t, visit_info_pattern))

\* the two halves cut at the first occurrence of marker; raised: index() raised
SplitAt(t, marker) ==
    LET marker_index == Index(t, marker)
    IN IF marker_index = 0
       THEN [raised |-> TRUE, soap_text |-> t, plan_text |-> <<>>]
       ELSE [raised |-> FALSE,
             soap_text |-> Strip(SubSeq(t, 1, marker_index - 1)),
             plan_text |-> Strip(SubSeq(t, marker_index + Len(marker), Len(t)))]

\* a slip: the second marker is taken for granted when the first is absent
SplitSoapPlan_unguarded(t) ==
    IF Contains(t, plan_marker1) THEN SplitAt(t, plan_marker1)
    ELSE SplitAt(t, plan_marker2)

\* a slip: without a marker the whole text is taken as the plan half too
SplitSoapPlan_plan_everywhere(t) ==
    IF Contains(t, plan_marker1) THEN SplitAt(t, plan_marker1)
    ELSE IF Contains(t, plan_marker2) THEN SplitAt(t, plan_marker2)
    ELSE [raised |-> FALSE, soap_text |-> t, plan_text |-> t]

\* a slip: the bracket marker is looked for first
SplitSoapPlan_bracket_first(t) ==
    IF Contains(t, plan_marker2) THEN SplitAt(t, plan_marker2)
    ELSE IF Contains(t, plan_marker1) THEN SplitAt(t, plan_marker1)
    ELSE [raised |-> FALSE, soap_text |-> t, plan_text |-> <<>>]

SplitSoapPlan(t) ==
    IF Contains(t, plan_marker1) THEN SplitAt(t, plan_marker1)
    ELSE IF Contains(t, plan_marker2) THEN SplitAt(t, plan_marker2)
    ELSE [raised |-> FALSE, soap_text |-> t, plan_text |-> <<>>]

\* group 1 of the first pattern of the chain that matches; "" when none does
\* (a matched group 1 is never empty)
ChainGroup(t, pats) ==
    LET fm == FirstMatch(t, pats, 1)
    IN IF fm[1] = 0 THEN <<>> ELSE Group1(t, fm[2])

ExtractS(t) == Strip(ChainGroup(t, s_patterns))
ExtractO(t) == Strip(ChainGroup(t, o_patterns))

\* group 1 of pat in t, stripped; "" when pat does not match
SubSection(t, pat) ==
    LET m == Search(t, pat) IN IF m = NoMatch THEN <<>> ELSE Strip(Group1(t, m))

ExtractA(t) ==
    LET a_content == ChainGroup(t, a_patterns)
    IN [key \in {a_keys[n] : n \in 1..Len(a_keys)} |->
           IF a_content = <<>> THEN <<>> ELSE SubSection(a_content, sections(key))]

\* one sub-section of P: the bold pattern, else the plain one, then the
\* trailing --- is removed
PSubSection(p_content, key) ==
    LET m1 == Search(p_content, p_sections(key))
        m  == IF m1 # NoMatch THEN m1 ELSE Search(p_content, fallback_pattern(key))
    IN IF m = NoMatch THEN <<>>
       ELSE Strip(Sub(Strip(Group1(p_content, m)), trailing_rule_pattern))

ExtractP(t) ==
    LET p_content == ChainGroup(t, p_patterns)
    IN [key \in {p_keys[n] : n \in 1..Len(p_keys)} |->
           IF p_content = <<>> THEN <<>> ELSE PSubSection(p_content, key)]

PlanField(t, i) ==
    LET m1 == Search(t, bold_pattern(i))
        m  == IF m1 # NoMatch THEN m1 ELSE Search(t, plain_pattern(i))
    IN IF m = NoMatch THEN <<>> ELSE Strip(Group1(t, m))

KeyIndex(keys, key) == CHOOSE n \in 1..Len(keys) : keys[n] = key

ExtractPlan(t) ==
    [key \in {plan_keys[n] : n \in 1..Len(plan_keys)} |->
        IF t = <<>> THEN <<>> ELSE PlanField(t, KeyIndex(plan_keys, key))]

\* the whole function: the returned {"soap": ..., "plan": ...}
parse_soap_response(t) ==
    IF t = <<>> THEN [soap |-> soap_default, plan |-> plan_default]
    ELSE LET halves == SplitSoapPlan(RemoveVisitInfo(Normalize(t)))
         IN [soap |-> [s |-> ExtractS(halves.soap_text),
                       o |-> ExtractO(halves.soap_text),
                       a |-> ExtractA(halves.soap_text),
                       p |-> ExtractP(halves.soap_text)],
             plan |-> ExtractPlan(halves.plan_text)]

-----------------------------------------------------------------------------
(* The input texts: the output of the language model.  A text is either a   *)
(* document laid out as the prompt asks (utils/prompt_template.py), with    *)
(* choices of markup, of sections left out and of additions, or a short     *)
(* arbitrary sequence of fragments.                                         *)

MaxFrags == 3       \* fragments of an arbitrary text
MaxBlank == 1       \* blank lines between two sections of a document

\* the fragments an arbitrary text is made of
Fragment(f) ==
    CASE f = "nl"      -> <<"nl">>
      [] f = "cr"      -> <<"cr">>
      [] f = "w"       -> <<"w">>
      [] f = "S"       -> <<"S", "FW(", "shukan", "FW)">>
      [] f = "visit"   -> <<"[[", "houmon_jouhou", "]]">>
      [] f = "marker1" -> plan_marker1
      [] f = "marker2" -> plan_marker2
      [] f = "goal"    -> <<"chouki_mokuhyou", "FW:">>

Fragments == {"nl", "cr", "w", "S", "visit", "marker1", "marker2", "goal"}

RECURSIVE Flatten(_)
Flatten(ss) == IF ss = <<>> THEN <<>> ELSE Head(ss) \o Flatten(Tail(ss))

RECURSIVE Repeat(_, _)
Repeat(s, n) == IF n <= 0 THEN <<>> ELSE s \o Repeat(s, n - 1)

\* units joined by sep, the empty units left out
RECURSIVE Join(_, _)
Join(units, sep) ==
    IF units = <<>> THEN <<>>
    ELSE IF Head(units) = <<>> THEN Join(Tail(units), sep)
    ELSE LET rest == Join(Tail(units), sep)
         IN IF rest = <<>> THEN Head(units) ELSE Head(units) \o sep \o rest

Formats  == {"plain", "bold", "bold_hash"}
Markers  == {"none", "md", "bracket", "bracket_md"}
TopKeys  == {"s", "o", "a", "p"}
AKeys    == {a_keys[n] : n \in 1..Len(a_keys)}
PKeys    == {p_keys[n] : n \in 1..Len(p_keys)}
PlanKeys == {plan_keys[n] : n \in 1..Len(plan_keys)}
Missing  == {"none"} \cup TopKeys \cup AKeys \cup PKeys \cup PlanKeys
Altered  == {"none"} \cup TopKeys \cup AKeys \cup PKeys
Mixed    == {"none"} \cup TopKeys \cup PlanKeys
Visits   == {"none", "start", "mid", "end"}
Contams  == {"plain", "heading", "bracket_marker", "md_marker"}

\* the narrative of a field: its own first word, then further lines
Word(f) == CASE f = "s" -> "kanja_ochitsuki" [] f = "o" -> "hyoujou_odayaka"
             [] f = "shoujou_suii" -> "t_suii" [] f = "risk_hyouka" -> "t_risk"
             [] f = "haikei_youin" -> "t_haikei"
             [] f = "jikai_kansatsu_point" -> "t_kansatsu"
             [] f = "honjitsu_enjo" -> "t_enjo" [] f = "jikai_houshin" -> "t_houshin"
             [] f = "chouki_mokuhyou" -> "t_chouki"
             [] f = "tanki_mokuhyou" -> "t_tanki"
             [] f = "kango_enjo_houshin" -> "t_kango"

Content(f, d) == <<Word(f)>> \o (IF d.multiline THEN <<"nl", "more">> ELSE <<>>)

Sep(d) == Repeat(<<"nl">>, 1 + d.blank)

Wrap(d, h) == IF d.fmt = "plain" THEN h ELSE <<"**">> \o h \o <<"**">>

\* the Latin code of a top-level heading, in the case the document uses
LowerCase(x) ==
    CASE x = "S" -> "s" [] x = "O" -> "o" [] x = "A" -> "a" [] x = "P" -> "p"

Code(d, x) == IF d.lower THEN LowerCase(x) ELSE x

\* the Japanese word of the heading of key; one more character follows it in
\* the document whose heading of key differs from the documented literal
HeadingWord(d, key, word) == IF d.altered = key THEN <<word, "x">> ELSE <<word>>

\* the form of the heading of key, a top-level or a care-plan heading: the
\* form of the document, or the other one of plain and bold for the heading
\* that differs from the rest
Form(d, key) ==
    IF d.mixed = key THEN (IF d.fmt = "plain" THEN "bold" ELSE "plain") ELSE d.fmt

TopHeading(d, x, word) ==
    LET h == <<Code(d, x), "FW(">> \o HeadingWord(d, LowerCase(x), word)
             \o <<"FW)">>
        form == Form(d, LowerCase(x))
    IN IF x = "P" /\ form = "bold_hash" THEN <<"###", "sp">> \o h
       ELSE IF form = "plain" THEN h ELSE <<"**">> \o h \o <<"**">>

AHeading(d, key) ==
    IF key = "risk_hyouka"
    THEN <<"[[">> \o HeadingWord(d, key, "risk_hyouka")
         \o <<"FW(", "jisatsu_tagai_fukuyaku", "FW)", "]]">>
    ELSE <<"[[">> \o HeadingWord(d, key, key) \o <<"]]">>

\* a heading line and the narrative under it; empty when the unit is left out
Unit(d, key, heading) ==
    IF d.missing = key THEN <<>> ELSE heading \o <<"nl">> \o Content(key, d)

ABlock(d) ==
    IF d.missing = "a" THEN <<>>
    ELSE TopHeading(d, "A", "assessment") \o <<"nl">>
         \o Join([n \in 1..Len(a_keys) |-> Unit(d, a_keys[n], AHeading(d, a_keys[n]))],
                 Sep(d))

PBlock(d) ==
    IF d.missing = "p" THEN <<>>
    ELSE TopHeading(d, "P", "keikaku") \o <<"nl">>
         \o Join([n \in 1..Len(p_keys) |->
                     Unit(d, p_keys[n],
                          Wrap(d, <<"[[">> \o HeadingWord(d, p_keys[n], p_keys[n])
                                   \o <<"]]">>))],
                 Sep(d))

SoapBlock(d) ==
    Join(<<Unit(d, "s", TopHeading(d, "S", "shukan")),
           Unit(d, "o", TopHeading(d, "O", "kyakkan")),
           ABlock(d), PBlock(d)>>, Sep(d))

PlanUnit(d, n) ==
    LET h == <<plan_keys[n], "FW:">>
    IN  Unit(d, plan_keys[n],
             IF Form(d, plan_keys[n]) = "plain" THEN h ELSE <<"**">> \o h \o <<"**">>)

PlanBlock(d) ==
    CASE d.marker = "none" -> <<>>
      [] d.marker = "md" ->
           plan_marker1 \o <<"nl">>
           \o Join([n \in 1..Len(plan_keys) |-> PlanUnit(d, n)], Sep(d))
      [] d.marker = "bracket" ->
           plan_marker2 \o <<"nl">>
           \o Join([n \in 1..Len(plan_keys) |-> PlanUnit(d, n)], Sep(d))
      [] d.marker = "bracket_md" ->
           Join(<<plan_marker2 \o <<"nl">> \o PlanUnit(d, 1),
                  plan_marker1 \o <<"nl">>
                  \o Join(<<PlanUnit(d, 2), PlanUnit(d, 3)>>, Sep(d))>>, Sep(d))

\* the visit-information block: its header, then a line of visit data that
\* may hold text looking like a heading or like a plan marker
VisitBlock(d) ==
    <<"[[", "houmon_jouhou", "]]", "nl", "vdate", "FW:">>
    \o (CASE d.contam = "plain" -> <<"vx">>
          [] d.contam = "heading" ->
               <<"vx", "nl", "S", "FW(", "shukan", "FW)", "nl", "vx">>
          [] d.contam = "bracket_marker" -> plan_marker2 \o <<"vx">>
          [] d.contam = "md_marker" -> plan_marker1 \o <<"vx">>)

Rule(d) == IF d.rule THEN <<"---">> ELSE <<>>

\* the text of the boundary scenario: S heading, sentence, O heading, sentence
BoundaryText ==
    <<"S", "FW(", "shukan", "FW)", "nl", "kanja_ochitsuki", "nl",
      "O", "FW(", "kyakkan", "FW)", "nl", "hyoujou_odayaka", "nl">>

Render(d) ==
    IF d.kind = "raw" THEN Flatten([n \in 1..Len(d.raw) |-> Fragment(d.raw[n])])
    ELSE IF d.kind = "boundary" THEN BoundaryText
    ELSE Join(<<IF d.visit = "start" THEN VisitBlock(d) ELSE <<>>,
                SoapBlock(d),
                Rule(d),
                IF d.visit = "mid" THEN VisitBlock(d) ELSE <<>>,
                PlanBlock(d),
                IF d.visit = "end" THEN VisitBlock(d) ELSE <<>>>>, Sep(d))
         \o <<"nl">>

RECURSIVE SeqsUpTo(_, _)
SeqsUpTo(S, n) ==
    IF n = 0 THEN {<<>>}
    ELSE LET shorter == SeqsUpTo(S, n - 1)
         IN shorter \cup {Append(q, x) : q \in shorter, x \in S}

RawDocs ==
    {[kind |-> "raw", raw |-> r, fmt |-> "plain", marker |-> "none",
      missing |-> "none", visit |-> "none", contam |-> "plain", rule |-> FALSE,
      blank |-> 0, multiline |-> FALSE, lower |-> FALSE, altered |-> "none", mixed |-> "none"]
       : r \in SeqsUpTo(Fragments, MaxFrags)}

BoundaryDoc ==
    [kind |-> "boundary", raw |-> <<>>, fmt |-> "plain", marker |-> "none",
     missing |-> "none", visit |-> "none", contam |-> "plain", rule |-> FALSE,
     blank |-> 0, multiline |-> FALSE, lower |-> FALSE, altered |-> "none", mixed |-> "none"]

LaidOutDocs ==
    {d \in [kind : {"doc"}, raw : {<<>>}, fmt : Formats, marker : Markers,
            missing : Missing, visit : Visits, contam : Contams, rule : BOOLEAN,
            blank : 0..MaxBlank, multiline : BOOLEAN, lower : BOOLEAN,
            altered : Altered, mixed : Mixed] :
        /\ d.mixed # "none" =>
              /\ d.visit = "none" /\ d.missing = "none" /\ ~d.rule /\ ~d.lower
              /\ d.altered = "none" /\ d.blank = 0 /\ d.fmt # "bold_hash"
        /\ d.mixed \in PlanKeys => d.marker \in {"md", "bracket"}
        /\ d.lower => d.visit = "none" /\ d.missing = "none" /\ ~d.rule
        /\ d.altered # "none" =>
              /\ d.visit = "none" /\ d.missing = "none" /\ ~d.rule /\ ~d.lower
              /\ d.blank = 0 /\ ~d.multiline
        /\ d.visit = "none" => d.contam = "plain"
        /\ d.visit = "mid" => d.marker # "none"
        /\ d.missing # "none" => d.visit = "none" /\ ~d.rule
        /\ d.rule => d.visit = "none" /\ d.marker # "none"
        /\ d.missing \in PlanKeys => d.marker # "none"}

Docs == RawDocs \cup LaidOutDocs \cup {BoundaryDoc}

-----------------------------------------------------------------------------
(* One call of parse_soap_response(text), step by step.                     *)

ParserInit ==
    /\ ParserAlone
    /\ doc \in Docs
    /\ text = Render(doc)
    /\ pc = "start"
    /\ normalized = <<>>
    /\ cleaned_text = <<>>
    /\ soap_text = <<>>
    /\ plan_text = <<>>
    /\ soap_output = soap_default
    /\ plan_output = plan_default

\* if not text: return {"soap": soap_output, "plan": plan_output}
EarlyReturn ==
    /\ UNCHANGED outside_parser
    /\ pc = "start"
    /\ text = <<>>
    /\ pc' = "done"
    /\ UNCHANGED <<doc, text, normalized, cleaned_text, soap_text, plan_text,
                   soap_output, plan_output>>

NormalizeLineEndings ==
    /\ UNCHANGED outside_parser
    /\ pc = "start"
    /\ text # <<>>
    /\ normalized' = Normalize(text)
    /\ pc' = "normalized"
    /\ UNCHANGED <<doc, text, cleaned_text, soap_text, plan_text,
                   soap_output, plan_output>>

StripVisitInfo ==
    /\ UNCHANGED outside_parser
    /\ pc = "normalized"
    /\ cleaned_text' = RemoveVisitInfo(normalized)
    /\ pc' = "cleaned"
    /\ UNCHANGED <<doc, text, normalized, soap_text, plan_text,
                   soap_output, plan_output>>

SplitSections ==
    /\ UNCHANGED outside_parser
    /\ pc = "cleaned"
    /\ LET halves == SplitSoapPlan(cleaned_text)
       IN /\ soap_text' = halves.soap_text
          /\ plan_text' = halves.plan_text
          /\ pc' = IF halves.raised THEN "raised" ELSE "split"
    /\ UNCHANGED <<doc, text, normalized, cleaned_text, soap_output, plan_output>>

ParseS ==
    /\ UNCHANGED outside_parser
    /\ pc = "split"
    /\ soap_output' = [soap_output EXCEPT !.s = ExtractS(soap_text)]
    /\ pc' = "s"
    /\ UNCHANGED <<doc, text, normalized, cleaned_text, soap_text, plan_text,
                   plan_output>>

ParseO ==
    /\ UNCHANGED outside_parser
    /\ pc = "s"
    /\ soap_output' = [soap_output EXCEPT !.o = ExtractO(soap_text)]
    /\ pc' = "o"
    /\ UNCHANGED <<doc, text, normalized, cleaned_text, soap_text, plan_text,
                   plan_output>>

ParseA ==
    /\ UNCHANGED outside_parser
    /\ pc = "o"
    /\ soap_output' = [soap_output EXCEPT !.a = ExtractA(soap_text)]
    /\ pc' = "a"
    /\ UNCHANGED <<doc, text, normalized, cleaned_text, soap_text, plan_text,
                   plan_output>>

ParseP ==
    /\ UNCHANGED outside_parser
    /\ pc = "a"
    /\ soap_output' = [soap_output EXCEPT !.p = ExtractP(soap_text)]
    /\ pc' = "p"
    /\ UNCHANGED <<doc, text, normalized, cleaned_text, soap_text, plan_text,
                   plan_output>>

ParsePlan ==
    /\ UNCHANGED outside_parser
    /\ pc = "p"
    /\ plan_output' = ExtractPlan(plan_text)
    /\ pc' = "plan"
    /\ UNCHANGED <<doc, text, normalized, cleaned_text, soap_text, plan_text,
                   soap_output>>

\* return {"soap": soap_output, "plan": plan_output}
Return ==
    /\ UNCHANGED outside_parser
    /\ pc = "plan"
    /\ pc' = "done"
    /\ UNCHANGED <<doc, text, normalized, cleaned_text, soap_text, plan_text,
                   soap_output, plan_output>>

ParserNext ==
    \/ EarlyReturn
    \/ NormalizeLineEndings
    \/ StripVisitInfo
    \/ SplitSections
    \/ ParseS
    \/ ParseO
    \/ ParseA
    \/ ParseP
    \/ ParsePlan
    \/ Return

ParserSpec == ParserInit /\ [][ParserNext]_vars

-----------------------------------------------------------------------------
(* Properties of parse_soap_response                                        *)

Alphabet ==
    WS \cup {"**", "###", "---", "S", "s", "O", "o", "A", "a", "P", "p",
             "FW(", "FW)", "FW:", "(", ")", ":", "[[", "]]",
             "shukan", "kyakkan", "assessment", "keikaku", "houmon_jouhou",
             "houmon_kango_keikakusho", "kango_keikakusho",
             "jisatsu_tagai_fukuyaku", "kanja_ochitsuki", "hyoujou_odayaka",
             "t_suii", "t_risk", "t_haikei", "t_kansatsu", "t_enjo", "t_houshin",
             "t_chouki", "t_tanki", "t_kango", "more", "vdate", "vx", "w", "x"}
    \cup AKeys \cup PKeys \cup PlanKeys

Returned == pc = "done"

\* the eleven leaves of the returned records, each with the word its heading holds
Leaves ==
    {<<"shukan", soap_output.s>>, <<"kyakkan", soap_output.o>>}
    \cup {<<k, soap_output.a[k]>> : k \in AKeys}
    \cup {<<k, soap_output.p[k]>> : k \in PKeys}
    \cup {<<k, plan_output[k]>> : k \in PlanKeys}

Occurs(t, x) == \E i \in 1..Len(t) : t[i] = x

\* C1: whatever the input, both returned records are complete: s, o, the
\* four sub-fields of a, the two of p and the three care-plan fields are all
\* there, each is a string, a field whose heading does not occur in the input
\* is the empty string, and on the empty input all eleven are empty.
C1_Totality ==
    Returned =>
        /\ DOMAIN soap_output = TopKeys
        /\ DOMAIN soap_output.a = AKeys
        /\ DOMAIN soap_output.p = PKeys
        /\ DOMAIN plan_output = PlanKeys
        /\ Cardinality(Leaves) = 11
        /\ \A l \in Leaves :
              /\ l[2] \in Seq(Alphabet)
              /\ ~Occurs(text, l[1]) => l[2] = <<>>
              /\ text = <<>> => l[2] = <<>>
        /\ ~Occurs(text, "assessment") => \A k \in AKeys : soap_output.a[k] = <<>>
        /\ ~Occurs(text, "keikaku") => \A k \in PKeys : soap_output.p[k] = <<>>

\* a document with only some headings has been parsed: O is left empty, S is not
C1_Witness ==
    /\ Returned
    /\ doc.kind = "doc" /\ doc.missing = "o"
    /\ soap_output.o = <<>> /\ soap_output.s # <<>>

\* the places of the function from which its next step can always be taken
Running == {"start", "normalized", "cleaned", "split", "s", "o", "a", "p", "plan"}

\* C2: the call never raises: no step ends in an exception, and the call is
\* either at a place from which its next step can be taken or has returned.
C2_NeverRaises == pc # "raised" /\ (Returned \/ pc \in Running)

\* an arbitrary text with both plan markers, the bracket one first, and a
\* visit-information header between them has been parsed to the end
C2_Witness ==
    /\ Returned
    /\ doc.kind = "raw" /\ doc.raw = <<"marker2", "visit", "marker1">>

\* C3: on the boundary scenario the S field is exactly the first sentence and
\* the O field exactly the second: no text of one field is in the other.
C3_BoundaryScenario ==
    Returned /\ text = BoundaryText =>
        /\ soap_output.s = <<"kanja_ochitsuki">>
        /\ soap_output.o = <<"hyoujou_odayaka">>

C3_Witness == Returned /\ text = BoundaryText /\ doc.kind = "boundary"

\* a document with every section, every sub-section and nothing added
FullDoc(d) ==
    /\ d.kind = "doc" /\ d.missing = "none" /\ d.visit = "none" /\ ~d.rule
    /\ d.altered = "none" /\ d.mixed = "none"

\* the narrative the document d holds under the heading of key: the text
\* between that heading and the next one, trimmed
Between(d, key) ==
    IF \/ d.missing = key
       \/ d.missing = "a" /\ key \in AKeys
       \/ d.missing = "p" /\ key \in PKeys
    THEN <<>> ELSE Content(key, d)

result == [soap |-> soap_output, plan |-> plan_output]

\* C4: for a full document with a care-plan section, every leaf returned is
\* exactly the narrative between its heading and the next heading, trimmed.
C4_EndToEnd ==
    Returned /\ FullDoc(doc) /\ doc.marker \in {"md", "bracket"} =>
        /\ soap_output.s = Between(doc, "s")
        /\ soap_output.o = Between(doc, "o")
        /\ \A k \in AKeys : soap_output.a[k] = Between(doc, k)
        /\ \A k \in PKeys : soap_output.p[k] = Between(doc, k)
        /\ \A k \in PlanKeys : plan_output[k] = Between(doc, k)

\* the reference document of the prompt (plain headings, bracket marker, a
\* blank line between sections, narratives of two lines) has been parsed
C4_Witness ==
    /\ Returned /\ FullDoc(doc)
    /\ doc.fmt = "plain" /\ doc.marker = "bracket" /\ doc.blank = 1 /\ doc.multiline
    /\ plan_output["kango_enjo_houshin"] = <<"t_kango", "nl", "more">>

C6_SubFieldIndependence ==
    Returned /\ doc.kind = "doc" /\ doc.missing \in (AKeys \cup PKeys) =>
        LET whole == parse_soap_response(Render([doc EXCEPT !.missing = "none"]))
        IN /\ \A k \in AKeys :
                soap_output.a[k] = IF k = doc.missing THEN <<>> ELSE whole.soap.a[k]
           /\ \A k \in PKeys :
                soap_output.p[k] = IF k = doc.missing THEN <<>> ELSE whole.soap.p[k]
           /\ \A k \in AKeys \ {doc.missing} : soap_output.a[k] = Content(k, doc)
           /\ \A k \in PKeys \ {doc.missing} : soap_output.p[k] = Content(k, doc)

\* the risk-assessment sub-section is left out and the other three are extracted
C6_Witness ==
    /\ Returned /\ doc.kind = "doc" /\ doc.missing = "risk_hyouka"
    /\ soap_output.a["risk_hyouka"] = <<>>
    /\ soap_output.a["shoujou_suii"] # <<>>
    /\ soap_output.a["haikei_youin"] # <<>>
    /\ soap_output.a["jikai_kansatsu_point"] # <<>>

\* the two halves the document d is split into
Halves(d) == SplitSoapPlan(RemoveVisitInfo(Normalize(Render(d))))

NoVisit(d) == [d EXCEPT !.visit = "none", !.contam = "plain"]

IsInfix(x, t) == x = <<>> \/ \E i \in 1..Len(t) : OccursAt(t, x, i)

\* C7: a visit-information block, whatever heading-like or marker-like text it
\* holds, leaves the split where it is without the block: the care-plan half
\* starts at the same marker, so it is the same text.
C7_SplitIgnoresVisitInfo ==
    pc \in {"split", "s", "o", "a", "p", "plan", "done"} /\ doc.visit # "none" =>
        plan_text = Halves(NoVisit(doc)).plan_text

NotWs(x) == x \notin WS

\* the text without its whitespace: removing a block leaves its blank line
Words(t) == SelectSeq(t, NotWs)

\* C8: the pre-clean removes the visit-information block and nothing else: up
\* to whitespace, the cleaned text of a document with a block of plain visit
\* data is the cleaned text of the document without it, and the S section that
\* follows a block at the start is still extracted.
C8_StripsExactlyVisitInfo ==
    Returned /\ doc.visit # "none" /\ doc.contam = "plain" =>
        /\ Words(cleaned_text) = Words(RemoveVisitInfo(Normalize(Render(NoVisit(doc)))))
        /\ soap_output.s = Between(doc, "s")

\* C9: with neither plan marker in the input the whole cleaned text is the
\* SOAP half, the three care-plan fields are empty, and the SOAP fields of a
\* laid-out document are its narratives.
C9_NoPlanSection ==
    Returned /\ ~Contains(text, plan_marker1) /\ ~Contains(text, plan_marker2) =>
        /\ text # <<>> => soap_text = cleaned_text
        /\ plan_text = <<>>
        /\ \A k \in PlanKeys : plan_output[k] = <<>>
        /\ FullDoc(doc) =>
              /\ soap_output.s = Between(doc, "s")
              /\ soap_output.o = Between(doc, "o")
              /\ \A k \in AKeys : soap_output.a[k] = Between(doc, k)
              /\ \A k \in PKeys : soap_output.p[k] = Between(doc, k)

\* a text with a care-plan field heading and its content but no plan marker
C9_Witness ==
    /\ Returned
    /\ doc.kind = "raw" /\ doc.raw = <<"goal", "nl", "w">>
    /\ plan_output["chouki_mokuhyou"] = <<>>

FirstAt(t, m, i) == OccursAt(t, m, i) /\ \A j \in 1..(i - 1) : ~OccursAt(t, m, j)

\* the halves are the trimmed texts before and after the marker m at i
CutAt(m, i) ==
    /\ soap_text = Strip(SubSeq(cleaned_text, 1, i - 1))
    /\ plan_text = Strip(SubSeq(cleaned_text, i + Len(m), Len(cleaned_text)))

\* C10: the text is split at the first Markdown marker when there is one, even
\* after an earlier bracket marker, and else at the first bracket marker; the
\* halves are the text before and after it; SOAP fields are text of the SOAP
\* half only and care-plan fields text of the plan half only.
C10_SplitPriority ==
    pc \in {"split", "s", "o", "a", "p", "plan", "done"} =>
        /\ \A i \in 1..Len(cleaned_text) :
              /\ FirstAt(cleaned_text, plan_marker1, i) => CutAt(plan_marker1, i)
              /\ FirstAt(cleaned_text, plan_marker2, i)
                   /\ ~Contains(cleaned_text, plan_marker1) => CutAt(plan_marker2, i)
        /\ Returned =>
              /\ IsInfix(soap_output.s, soap_text) /\ IsInfix(soap_output.o, soap_text)
              /\ \A k \in AKeys : IsInfix(soap_output.a[k], soap_text)
              /\ \A k \in PKeys : IsInfix(soap_output.p[k], soap_text)
              /\ \A k \in PlanKeys : IsInfix(plan_output[k], plan_text)
        /\ Returned /\ doc.kind = "doc" /\ doc.marker = "bracket_md"
             /\ doc.visit = "none" =>
              /\ plan_output["chouki_mokuhyou"] = <<>>
              /\ plan_output["tanki_mokuhyou"] = Between(doc, "tanki_mokuhyou")

\* a document with the bracket marker before the Markdown marker has been split
\* at the Markdown marker: the bracket marker is in the SOAP half
C10_Witness ==
    /\ Returned /\ doc.kind = "doc" /\ doc.marker = "bracket_md"
    /\ Contains(soap_text, plan_marker2)
    /\ ~Contains(soap_text, plan_marker1) /\ ~Contains(plan_text, plan_marker1)

\* the fields extracted under the heading of key
FieldsOf(key) ==
    CASE key \in {"s", "o"} -> {soap_output[key]}
      [] key = "a" -> {soap_output.a[k] : k \in AKeys}
      [] key = "p" -> {soap_output.p[k] : k \in PKeys}
      [] key \in AKeys -> {soap_output.a[key]}
      [] key \in PKeys -> {soap_output.p[key]}

\* C11: a document written with the section codes s, o, a, p is parsed to the
\* same eleven values as the same document written with S, O, A, P; and a
\* heading whose Japanese text is not the documented literal is not taken for
\* that heading: the fields under it stay empty.
C11_CaseAndExactHeadings ==
    Returned /\ doc.kind = "doc" =>
        /\ doc.lower => result = parse_soap_response(Render([doc EXCEPT !.lower = FALSE]))
        /\ doc.altered # "none" => FieldsOf(doc.altered) = {<<>>}

\* a document with lower-case section codes and bold headings has been parsed
\* and its O field found
C11_Witness ==
    /\ Returned /\ doc.kind = "doc" /\ doc.lower /\ doc.fmt = "bold"
    /\ soap_output.o = Content("o", doc)

\* C20: when one top-level section (heading and content) is absent from the
\* input, its field is empty and every other field of both records has the
\* value it has when the section is present.
C20_MissIsolated ==
    Returned /\ doc.kind = "doc" /\ doc.missing \in TopKeys =>
        LET present == parse_soap_response(Render([doc EXCEPT !.missing = "none"]))
        IN  /\ FieldsOf(doc.missing) = {<<>>}
            /\ \A k \in TopKeys \ {doc.missing} : soap_output[k] = present.soap[k]
            /\ plan_output = present.plan

\* the narrative of a field holds the symbol x
Holds(value, x) == \E i \in 1..Len(value) : value[i] = x

\* C21: for a document with all four top-level headings, each in a recognised
\* form, the S field holds neither the O heading nor the narrative after it,
\* the O field neither the A heading nor the narrative after it, and no A
\* sub-field holds the P heading, also when the two headings differ in form.
C21_EndsAtNextHeading ==
    Returned /\ doc.kind = "doc" /\ doc.missing = "none" /\ doc.altered = "none"
             /\ doc.visit = "none" =>
        /\ ~Holds(soap_output.s, "kyakkan") /\ ~Holds(soap_output.s, Word("o"))
        /\ ~Holds(soap_output.o, "assessment") /\ ~Holds(soap_output.o, Word("shoujou_suii"))
        /\ \A k \in AKeys : ~Holds(soap_output.a[k], "keikaku")

\* the same with the headings of one form only
C21_SameForm == doc.mixed = "none" => C21_EndsAtNextHeading

\* C22: in a document whose care-plan section holds the three headings, each
\* care-plan field is the narrative between its own heading and the heading
\* of the next field, without that heading and what follows it; the last
\* field ends at the next bracket heading or at the end of the text.
C22_PlanFieldsBounded ==
    Returned /\ doc.kind = "doc" /\ doc.marker \in {"md", "bracket"}
             /\ doc.missing \notin PlanKeys
             /\ doc.visit \in {"none", "end"} /\ doc.contam = "plain" =>
        \A k \in PlanKeys : plan_output[k] = Between(doc, k)

\* the same with the headings of one form only
C22_SameForm == doc.mixed = "none" => C22_PlanFieldsBounded

-----------------------------------------------------------------------------
(* Part 2: several calls of parse_soap_response at once.                    *)
(*                                                                          *)
(* The request handlers call the function from several threads or tasks.    *)
(* A dict is an object on the heap, named by its address; a str is          *)
(* immutable and is a value.  A call allocates its two records with the     *)
(* nested a and p dicts (lines 18-37) and the dict it returns (line 178);   *)
(* everything else it touches is a local of the call.                       *)

NumCalls == 2       \* calls in flight

Tasks == 1..NumCalls

\* the texts the calls are given: the empty one, the boundary scenario, and
\* the reference document with its care plan
CallTexts ==
    {<<>>, BoundaryText,
     Render([kind |-> "doc", raw |-> <<>>, fmt |-> "plain", marker |-> "bracket",
             missing |-> "none", visit |-> "none", contam |-> "plain",
             rule |-> FALSE, blank |-> 0, multiline |-> FALSE,
             lower |-> FALSE, altered |-> "none", mixed |-> "none"])}

\* An address is <<call, name>>: the object the call allocated for name.
\* a slip: the default records are built once, when the module is loaded,
\* and every call fills in the same four dicts
Allocate_module_level(h, t) ==
    IF h = <<>>
    THEN [heap |-> (<<0, "a">> :> soap_default.a) @@ (<<0, "p">> :> soap_default.p)
                   @@ (<<0, "soap">> :> [s |-> soap_default.s, o |-> soap_default.o,
                                         a |-> <<0, "a">>, p |-> <<0, "p">>])
                   @@ (<<0, "plan">> :> plan_default),
          soap_output |-> <<0, "soap">>, plan_output |-> <<0, "plan">>]
    ELSE [heap |-> h, soap_output |-> <<0, "soap">>, plan_output |-> <<0, "plan">>]

\* soap_output = {"s": "", "o": "", "a": {...}, "p": {...}}; plan_output = {...}:
\* four new dicts
Allocate(h, t) ==
    [heap |-> h @@ (<<t, "a">> :> soap_default.a) @@ (<<t, "p">> :> soap_default.p)
              @@ (<<t, "soap">> :> [s |-> soap_default.s, o |-> soap_default.o,
                                    a |-> <<t, "a">>, p |-> <<t, "p">>])
              @@ (<<t, "plan">> :> plan_default),
     soap_output |-> <<t, "soap">>, plan_output |-> <<t, "plan">>]

\* the locals of a call that has not started
NotCalled ==
    [pc |-> "idle", text |-> <<>>, soap_text |-> <<>>, plan_text |-> <<>>,
     soap_output |-> <<>>, plan_output |-> <<>>, returned |-> <<>>, edited |-> "none"]

ConcurrentInit ==
    /\ ConcurrentAlone
    /\ heap = <<>>
    /\ calls = [t \in Tasks |-> NotCalled]

\* a task calls parse_soap_response(text): lines 18-37
Call(t) ==
    /\ calls[t].pc = "idle"
    /\ \E x \in CallTexts :
          LET al == Allocate(heap, t)
          IN /\ heap' = al.heap
             /\ calls' = [calls EXCEPT ![t].pc = "start", ![t].text = x,
                                       ![t].soap_output = al.soap_output,
                                       ![t].plan_output = al.plan_output]
    /\ UNCHANGED outside_concurrent

\* return {"soap": soap_output, "plan": plan_output}: one more new dict
ReturnOf(t) ==
    /\ heap' = heap @@ (<<t, "return">> :> [soap |-> calls[t].soap_output,
                                            plan |-> calls[t].plan_output])
    /\ calls' = [calls EXCEPT ![t].pc = "done", ![t].returned = <<t, "return">>]

\* if not text: return ...
CallEarlyReturn(t) ==
    /\ calls[t].pc = "start"
    /\ calls[t].text = <<>>
    /\ ReturnOf(t)
    /\ UNCHANGED outside_concurrent

\* lines 42-62: the normalised, cleaned and split text are locals
CallSplit(t) ==
    /\ calls[t].pc = "start"
    /\ calls[t].text # <<>>
    /\ LET halves == SplitSoapPlan(RemoveVisitInfo(Normalize(calls[t].text)))
       IN calls' = [calls EXCEPT ![t].pc = IF halves.raised THEN "raised" ELSE "split",
                                 ![t].soap_text = halves.soap_text,
                                 ![t].plan_text = halves.plan_text]
    /\ UNCHANGED <<heap, outside_concurrent>>

\* soap_output["s"] = match.group(1).strip(), when a pattern matches
CallParseS(t) ==
    /\ calls[t].pc = "split"
    /\ heap' = IF FirstMatch(calls[t].soap_text, s_patterns, 1)[1] = 0 THEN heap
               ELSE [heap EXCEPT ![calls[t].soap_output].s = ExtractS(calls[t].soap_text)]
    /\ calls' = [calls EXCEPT ![t].pc = "s"]
    /\ UNCHANGED outside_concurrent

CallParseO(t) ==
    /\ calls[t].pc = "s"
    /\ heap' = IF FirstMatch(calls[t].soap_text, o_patterns, 1)[1] = 0 THEN heap
               ELSE [heap EXCEPT ![calls[t].soap_output].o = ExtractO(calls[t].soap_text)]
    /\ calls' = [calls EXCEPT ![t].pc = "o"]
    /\ UNCHANGED outside_concurrent

\* soap_output["a"][key] = match.group(1).strip(), for the keys that match
CallParseA(t) ==
    /\ calls[t].pc = "o"
    /\ LET a_content == ChainGroup(calls[t].soap_text, a_patterns)
       IN heap' = [heap EXCEPT ![heap[calls[t].soap_output].a] =
                     [key \in AKeys |->
                        IF a_content # <<>> /\ Search(a_content, sections(key)) # NoMatch
                        THEN SubSection(a_content, sections(key)) ELSE @[key]]]
    /\ calls' = [calls EXCEPT ![t].pc = "a"]
    /\ UNCHANGED outside_concurrent

CallParseP(t) ==
    /\ calls[t].pc = "a"
    /\ LET p_content == ChainGroup(calls[t].soap_text, p_patterns)
       IN heap' = [heap EXCEPT ![heap[calls[t].soap_output].p] =
                     [key \in PKeys |->
                        IF /\ p_content # <<>>
                           /\ \/ Search(p_content, p_sections(key)) # NoMatch
                              \/ Search(p_content, fallback_pattern(key)) # NoMatch
                        THEN PSubSection(p_content, key) ELSE @[key]]]
    /\ calls' = [calls EXCEPT ![t].pc = "p"]
    /\ UNCHANGED outside_concurrent

\* plan_output[key] = match.group(1).strip(), for the keys that match
CallParsePlan(t) ==
    /\ calls[t].pc = "p"
    /\ heap' = [heap EXCEPT ![calls[t].plan_output] =
                  [key \in PlanKeys |->
                     LET i == KeyIndex(plan_keys, key)
                     IN IF /\ calls[t].plan_text # <<>>
                           /\ \/ Search(calls[t].plan_text, bold_pattern(i)) # NoMatch
                              \/ Search(calls[t].plan_text, plain_pattern(i)) # NoMatch
                        THEN PlanField(calls[t].plan_text, i) ELSE @[key]]]
    /\ calls' = [calls EXCEPT ![t].pc = "plan"]
    /\ UNCHANGED outside_concurrent

CallReturn(t) ==
    /\ calls[t].pc = "plan"
    /\ ReturnOf(t)
    /\ UNCHANGED outside_concurrent

\* what a caller may write into the record it was given: a top-level field,
\* a field of the nested a dict, a field of the care-plan dict
Edits == {"s", "shoujou_suii", "chouki_mokuhyou"}

\* the heap after result[...][e] = "edited" on the record at address r
Write(h, r, e) ==
    CASE e = "s" -> [h EXCEPT ![h[r].soap].s = <<"edited">>]
      [] e \in AKeys -> [h EXCEPT ![h[h[r].soap].a][e] = <<"edited">>]
      [] e \in PlanKeys -> [h EXCEPT ![h[r].plan][e] = <<"edited">>]

\* the caller of a call that has returned changes the record it holds
Edit(t) ==
    /\ calls[t].pc = "done"
    /\ calls[t].edited = "none"
    /\ \E e \in Edits :
          /\ heap' = Write(heap, calls[t].returned, e)
          /\ calls' = [calls EXCEPT ![t].edited = e]
    /\ UNCHANGED outside_concurrent

ConcurrentNext ==
    \E t \in Tasks :
        \/ Call(t)
        \/ CallEarlyReturn(t)
        \/ CallSplit(t)
        \/ CallParseS(t)
        \/ CallParseO(t)
        \/ CallParseA(t)
        \/ CallParseP(t)
        \/ CallParsePlan(t)
        \/ CallReturn(t)
        \/ Edit(t)

ConcurrentSpec == ConcurrentInit /\ [][ConcurrentNext]_vars

\* the record a caller reads through the address r
Value(h, r) ==
    [soap |-> [s |-> h[h[r].soap].s, o |-> h[h[r].soap].o,
               a |-> h[h[h[r].soap].a], p |-> h[h[h[r].soap].p]],
     plan |-> h[h[r].plan]]

\* what parse_soap_response gives for each text when it runs on its own
Sequential == [x \in CallTexts |-> parse_soap_response(x)]

\* the record parse_soap_response(x) gives on its own, after the edit e
Alone(x, e) ==
    LET v == Sequential[x]
    IN CASE e = "none" -> v
         [] e = "s" -> [v EXCEPT !.soap.s = <<"edited">>]
         [] e \in AKeys -> [v EXCEPT !.soap.a[e] = <<"edited">>]
         [] e \in PlanKeys -> [v EXCEPT !.plan[e] = <<"edited">>]

\* the addresses of the dicts of call t: its records and what it returned
Objects(t) ==
    IF calls[t].pc = "idle" THEN {}
    ELSE {calls[t].soap_output, calls[t].plan_output,
          heap[calls[t].soap_output].a, heap[calls[t].soap_output].p}
         \cup (IF calls[t].returned = <<>> THEN {} ELSE {calls[t].returned})

\* C12: however the calls interleave, a call that has returned holds exactly
\* the record its text gives when parsed alone (with the change its own caller
\* made, if any), whatever the other calls and their callers did; and no dict
\* belongs to two calls.
C12_CallsIndependent ==
    /\ \A t \in Tasks :
          calls[t].pc = "done" =>
              Value(heap, calls[t].returned) = Alone(calls[t].text, calls[t].edited)
    /\ \A t, u \in Tasks : t # u => Objects(t) \cap Objects(u) = {}
    /\ \A t \in Tasks : calls[t].pc # "raised"

\* two calls on different texts have both returned, the first one's record
\* was then edited by its caller, and the second one found its S field
C12_Witness ==
    /\ calls[1].pc = "done" /\ calls[2].pc = "done"
    /\ calls[1].text # calls[2].text
    /\ calls[1].edited = "s" /\ calls[2].edited = "none"
    /\ Value(heap, calls[2].returned).soap.s = <<"kanja_ochitsuki">>

-----------------------------------------------------------------------------
(* Part 3: api/routers/generation.py, generate_note.                        *)
(*                                                                          *)
(* A str field of the request is a sequence of symbols: <<>> is "", "sp" a  *)
(* space, "w" a word, "2025-01-15" a date that parses, "15.1." a date       *)
(* that does not.  What the patient table, the language model and the       *)
(* database answer is chosen by the environment.                            *)

\* the request bodies: GenerateRequest, every str field defaulting to ""
Requests ==
    [patient_id : {"none", "p1"},
     userName : {<<>>, <<"sp">>, <<"w">>},
     diagnosis : {<<>>, <<"w">>},
     visitDate : {<<>>, <<"sp">>, <<"2025-01-15">>, <<"15.1.">>},
     startTime : {<<>>, <<"w">>},
     endTime : {<<>>, <<"w">>},
     sText : {<<>>, <<"sp">>, <<"w">>},
     oText : {<<>>, <<"w">>}]

\* what generate_output may return: a text, stripped and not empty
Outputs == CallTexts \ {<<>>}

\* how save_soap_record may end: the row is inserted and returned; the insert
\* raises; the insert is made but no row comes back
SaveOutcomes == {"saved", "failed", "no_data"}

HandlerInit ==
    /\ HandlerAlone
    /\ request \in Requests
    /\ handler_pc = "start"
    /\ output = <<>>
    /\ parsed_data = <<>>
    /\ soap_records = <<>>
    /\ log = <<>>
    /\ response = [status |-> 0, body |-> <<>>]
    /\ trace = <<>>

\* raise HTTPException(status_code=status, ...)
Raise(status) ==
    /\ response' = [status |-> status, body |-> <<"detail">>]
    /\ handler_pc' = "done"

\* if patient_id: patient_data = get_patient_by_id(...), 404 when it raises
LookupPatient ==
    /\ handler_pc = "start"
    /\ request.patient_id # "none"
    /\ \E found \in BOOLEAN :
          IF found THEN handler_pc' = "fields" /\ UNCHANGED response
          ELSE Raise(404)
    /\ trace' = Append(trace, "get_patient_by_id")
    /\ UNCHANGED <<request, output, parsed_data, soap_records, log, outside_handler>>

\* else: userName and diagnosis are required
ValidateNames ==
    /\ handler_pc = "start"
    /\ request.patient_id = "none"
    /\ IF Strip(request.userName) = <<>> \/ Strip(request.diagnosis) = <<>>
       THEN Raise(400)
       ELSE handler_pc' = "fields" /\ UNCHANGED response
    /\ UNCHANGED <<request, output, parsed_data, soap_records, log, trace,
                   outside_handler>>

\* a slip: the check of the two times is left out
RequiredFieldMissing_times_unchecked(req) ==
    \/ Strip(req.visitDate) = <<>>
    \/ Strip(req.sText) = <<>> /\ Strip(req.oText) = <<>>

\* if not request.visitDate.strip(): ...  if not request.startTime.strip() or
\* not request.endTime.strip(): ...  if not request.sText.strip() and not
\* request.oText.strip(): ...
RequiredFieldMissing(req) ==
    \/ Strip(req.visitDate) = <<>>
    \/ Strip(req.startTime) = <<>> \/ Strip(req.endTime) = <<>>
    \/ Strip(req.sText) = <<>> /\ Strip(req.oText) = <<>>

\* the visit date, both times, and S or O are required
ValidateFields ==
    /\ handler_pc = "fields"
    /\ IF RequiredFieldMissing(request)
       THEN Raise(400)
       ELSE handler_pc' = "prompt" /\ UNCHANGED response
    /\ UNCHANGED <<request, output, parsed_data, soap_records, log, trace,
                   outside_handler>>

\* prompt = build_prompt(...): ValueError for a date that does not parse
BuildPrompt ==
    /\ handler_pc = "prompt"
    /\ IF request.visitDate # <<"2025-01-15">>
       THEN Raise(400)
       ELSE handler_pc' = "generate" /\ UNCHANGED response
    /\ trace' = Append(trace, "build_prompt")
    /\ UNCHANGED <<request, output, parsed_data, soap_records, log, outside_handler>>

\* output = ai_service.generate_output(prompt), 502 on AIServiceError
GenerateOutput ==
    /\ handler_pc = "generate"
    /\ \/ \E x \in Outputs :
             /\ output' = x
             /\ handler_pc' = "parse"
             /\ UNCHANGED response
       \/ Raise(502) /\ UNCHANGED output
    /\ trace' = Append(trace, "generate_output")
    /\ UNCHANGED <<request, parsed_data, soap_records, log, outside_handler>>

\* parsed_data = parse_soap_response(output)
ParseOutput ==
    /\ handler_pc = "parse"
    /\ parsed_data' = parse_soap_response(output)
    /\ handler_pc' = "save"
    /\ trace' = Append(trace, "parse_soap_response")
    /\ UNCHANGED <<request, output, soap_records, log, response, outside_handler>>

\* a slip: the handler lets the DatabaseServiceError through, and the outer
\* except Exception answers 500
except_DatabaseServiceError_reraised == [pc |-> "done", status |-> 500]

\* except DatabaseServiceError: logger.error(...), and the handler goes on to
\* return output
except_DatabaseServiceError == [pc |-> "return", status |-> 0]

\* save_soap_record(..., soap_output=parsed_data["soap"], plan_output=parsed_data["plan"])
SaveRecord ==
    /\ handler_pc = "save"
    /\ \E outcome \in SaveOutcomes :
          /\ soap_records' =
                IF outcome = "failed" THEN soap_records
                ELSE Append(soap_records, [visit_date |-> Strip(request.visitDate),
                                           soap_output |-> parsed_data.soap,
                                           plan_output |-> parsed_data.plan])
          /\ IF outcome = "saved"
             THEN /\ log' = Append(log, "info: saved")
                  /\ handler_pc' = "return"
                  /\ UNCHANGED response
             ELSE /\ log' = Append(log, "error: failed to save")
                  /\ handler_pc' = except_DatabaseServiceError.pc
                  /\ response' = IF except_DatabaseServiceError.status = 0 THEN response
                                 ELSE [status |-> except_DatabaseServiceError.status,
                                       body |-> <<"detail">>]
    /\ trace' = Append(trace, "save_soap_record")
    /\ UNCHANGED <<request, output, parsed_data, outside_handler>>

\* return output
ReturnOutput ==
    /\ handler_pc = "return"
    /\ response' = [status |-> 200, body |-> output]
    /\ handler_pc' = "done"
    /\ trace' = Append(trace, "return")
    /\ UNCHANGED <<request, output, parsed_data, soap_records, log, outside_handler>>

HandlerNext ==
    \/ LookupPatient
    \/ ValidateNames
    \/ ValidateFields
    \/ BuildPrompt
    \/ GenerateOutput
    \/ ParseOutput
    \/ SaveRecord
    \/ ReturnOutput

HandlerSpec == HandlerInit /\ [][HandlerNext]_vars

-----------------------------------------------------------------------------
(* Properties of generate_note                                              *)

Called(e) == \E n \in 1..Len(trace) : trace[n] = e

Logged(line) == \E n \in 1..Len(log) : log[n] = line

\* C13: when the language model has answered, the handler ends with 200 and
\* the body is the model's output itself, whether the record was saved or the
\* save failed and whatever the parser extracted; a failed save is in the log
\* and nowhere in the response.
C13_SaveFailureNotSurfaced ==
    /\ handler_pc = "done" /\ output # <<>> =>
          /\ response = [status |-> 200, body |-> output]
          /\ Logged("error: failed to save") \/ Logged("info: saved")
          /\ ~Logged("info: saved") => Logged("error: failed to save")
          /\ soap_records = <<>> => Logged("error: failed to save")
    /\ output # <<>> => response.status \in {0, 200}

\* the save failed, nothing was stored, and the handler answered 200 with the
\* output of the model
C13_Witness ==
    /\ handler_pc = "done" /\ Logged("error: failed to save") /\ soap_records = <<>>
    /\ response = [status |-> 200, body |-> output] /\ output # <<>>
    /\ parsed_data.soap.s # <<>>

\* the calls of the pipeline among the calls made, in the order made
Pipeline ==
    SelectSeq(trace, LAMBDA e : e \in {"generate_output", "parse_soap_response",
                                       "save_soap_record", "return"})

\* what the request must hold to be served, said without the handler
Acceptable(req) ==
    /\ req.patient_id = "none" =>
          /\ \E n \in 1..Len(req.userName) : req.userName[n] \notin WS
          /\ \E n \in 1..Len(req.diagnosis) : req.diagnosis[n] \notin WS
    /\ req.visitDate = <<"2025-01-15">>
    /\ \E n \in 1..Len(req.startTime) : req.startTime[n] \notin WS
    /\ \E n \in 1..Len(req.endTime) : req.endTime[n] \notin WS
    /\ \/ \E n \in 1..Len(req.sText) : req.sText[n] \notin WS
       \/ \E n \in 1..Len(req.oText) : req.oText[n] \notin WS

\* C14: the language model is called only for a request that passed every
\* check; the calls made are, in this order and each at most once, the model,
\* the parser, the save, the return; the parser runs on the output received
\* and before the 200; a saved record holds what the parser gave; after 400
\* or 404 the model was not called and nothing is stored; after 502 the
\* parser did not run and nothing is stored.
C14_PipelineOrder ==
    /\ \E n \in 0..4 :
          Pipeline = SubSeq(<<"generate_output", "parse_soap_response",
                              "save_soap_record", "return">>, 1, n)
    /\ Called("generate_output") => Acceptable(request)
    /\ Called("parse_soap_response") => output # <<>> /\ parsed_data # <<>>
    /\ response.status = 200 => Called("parse_soap_response")
    /\ Len(soap_records) <= 1
    /\ soap_records # <<>> =>
          /\ Called("save_soap_record")
          /\ soap_records[1].soap_output = parsed_data.soap
          /\ soap_records[1].plan_output = parsed_data.plan
    /\ response.status \in {400, 404} =>
          ~Called("generate_output") /\ soap_records = <<>>
    /\ response.status = 502 =>
          /\ Called("generate_output") /\ ~Called("parse_soap_response")
          /\ soap_records = <<>>

\* the model failed for a request that passed every check: 502, nothing
\* parsed, nothing stored
C14_Witness ==
    /\ handler_pc = "done" /\ response.status = 502 /\ request.patient_id = "p1"
    /\ trace = <<"get_patient_by_id", "build_prompt", "generate_output">>
    /\ parsed_data = <<>> /\ soap_records = <<>>

-----------------------------------------------------------------------------
(* Part 4: services/plan_service.py, calculate_visit_duration_minutes.      *)
(*                                                                          *)
(* A time string is a sequence of characters: the digits, ":", "-", "sp"    *)
(* (a space) and "x" (a letter).  An Optional[str] is a record: given is    *)
(* FALSE for None.                                                          *)

Digits == <<"0", "1", "2", "3", "4", "5", "6", "7", "8", "9">>

DigitValue(c) == (CHOOSE n \in 1..10 : Digits[n] = c) - 1

IsDigit(c) == \E n \in 1..10 : Digits[n] = c

\* the number written by a non-empty sequence of digits
RECURSIVE Decimal(_)
Decimal(ds) ==
    IF Len(ds) = 1 THEN DigitValue(ds[1])
    ELSE 10 * Decimal(SubSeq(ds, 1, Len(ds) - 1)) + DigitValue(ds[Len(ds)])

\* a slip: what is not a number counts as 0
ParseInt_lenient(s) ==
    LET body == Strip(s)
        neg  == body # <<>> /\ body[1] = "-"
        ds   == IF neg THEN Tail(body) ELSE body
    IN IF ds = <<>> \/ \E n \in 1..Len(ds) : ~IsDigit(ds[n])
       THEN [ok |-> TRUE, value |-> 0]
       ELSE [ok |-> TRUE, value |-> IF neg THEN 0 - Decimal(ds) ELSE Decimal(ds)]

\* int(s): white space around, a sign, digits; ValueError otherwise
ParseInt(s) ==
    LET body == Strip(s)
        neg  == body # <<>> /\ body[1] = "-"
        ds   == IF neg THEN Tail(body) ELSE body
    IN IF ds = <<>> \/ \E n \in 1..Len(ds) : ~IsDigit(ds[n])
       THEN [ok |-> FALSE, value |-> 0]
       ELSE [ok |-> TRUE, value |-> IF neg THEN 0 - Decimal(ds) ELSE Decimal(ds)]

\* s.split(":")
RECURSIVE SplitColon(_)
SplitColon(s) ==
    IF \A n \in 1..Len(s) : s[n] # ":" THEN <<s>>
    ELSE LET i == Min({n \in 1..Len(s) : s[n] = ":"})
         IN <<SubSeq(s, 1, i - 1)>> \o SplitColon(SubSeq(s, i + 1, Len(s)))

\* the parts a time is written with, each with the number it stands for
\* (no number for a part that is not numeric)
HourParts ==
    {[chars |-> <<"0", "0">>, numeric |-> TRUE, value |-> 0],
     [chars |-> <<"0", "9">>, numeric |-> TRUE, value |-> 9],
     [chars |-> <<"1", "0">>, numeric |-> TRUE, value |-> 10],
     [chars |-> <<"2", "3">>, numeric |-> TRUE, value |-> 23],
     [chars |-> <<"0", "1">>, numeric |-> TRUE, value |-> 1],
     [chars |-> <<"-", "1">>, numeric |-> TRUE, value |-> 0 - 1],
     [chars |-> <<"2", "5">>, numeric |-> TRUE, value |-> 25],
     [chars |-> <<"x">>, numeric |-> FALSE, value |-> 0],
     [chars |-> <<>>, numeric |-> FALSE, value |-> 0]}

MinuteParts ==
    {[chars |-> <<"0", "0">>, numeric |-> TRUE, value |-> 0],
     [chars |-> <<"2", "5">>, numeric |-> TRUE, value |-> 25],
     [chars |-> <<"3", "0">>, numeric |-> TRUE, value |-> 30],
     [chars |-> <<"5", "9">>, numeric |-> TRUE, value |-> 59],
     [chars |-> <<"x", "x">>, numeric |-> FALSE, value |-> 0]}

\* the seconds: left out, or written
SecondParts == {"absent", "45", "xx"}

\* the times given: None, "", a string without a colon, or hour:minute[:second]
Times ==
    {[kind |-> k, hour |-> CHOOSE h \in HourParts : h.value = 9,
      minute |-> CHOOSE m \in MinuteParts : m.value = 30, second |-> "absent"]
        : k \in {"none", "empty", "one_part"}}
    \cup [kind : {"time"}, hour : HourParts, minute : MinuteParts, second : SecondParts]

\* the Optional[str] the caller passes for the time tm
TimeString(tm) ==
    CASE tm.kind = "none" -> [given |-> FALSE, str |-> <<>>]
      [] tm.kind = "empty" -> [given |-> TRUE, str |-> <<>>]
      [] tm.kind = "one_part" -> [given |-> TRUE, str |-> tm.hour.chars \o tm.minute.chars]
      [] tm.kind = "time" ->
           [given |-> TRUE,
            str |-> tm.hour.chars \o <<":">> \o tm.minute.chars
                    \o (CASE tm.second = "absent" -> <<>>
                          [] tm.second = "45" -> <<":", "4", "5">>
                          [] tm.second = "xx" -> <<":", "x", "x">>)]

DurationInit ==
    /\ DurationAlone
    /\ times \in [start : Times, end : Times]
    /\ start_time = TimeString(times.start)
    /\ end_time = TimeString(times.end)
    /\ duration_pc = "start"
    /\ start_parts = <<>>
    /\ end_parts = <<>>
    /\ duration = [none |-> TRUE, minutes |-> 0]

\* if not start_time or not end_time: return None
ReturnNoneMissing ==
    /\ duration_pc = "start"
    /\ \/ ~start_time.given \/ start_time.str = <<>>
       \/ ~end_time.given \/ end_time.str = <<>>
    /\ duration' = [none |-> TRUE, minutes |-> 0]
    /\ duration_pc' = "done"
    /\ UNCHANGED <<times, start_time, end_time, start_parts, end_parts,
                   outside_duration>>

\* start_parts = start_time.split(":"); end_parts = end_time.split(":")
SplitTimes ==
    /\ duration_pc = "start"
    /\ start_time.given /\ start_time.str # <<>>
    /\ end_time.given /\ end_time.str # <<>>
    /\ start_parts' = SplitColon(start_time.str)
    /\ end_parts' = SplitColon(end_time.str)
    /\ duration_pc' = "split"
    /\ UNCHANGED <<times, start_time, end_time, duration, outside_duration>>

\* if len(start_parts) < 2 or len(end_parts) < 2: return None
ReturnNoneTooFewParts ==
    /\ duration_pc = "split"
    /\ Len(start_parts) < 2 \/ Len(end_parts) < 2
    /\ duration' = [none |-> TRUE, minutes |-> 0]
    /\ duration_pc' = "done"
    /\ UNCHANGED <<times, start_time, end_time, start_parts, end_parts,
                   outside_duration>>

\* a slip: an end before the start is not taken for the next day
Duration_same_day(start_total_minutes, end_total_minutes) ==
    end_total_minutes - start_total_minutes

\* if end_total_minutes < start_total_minutes:
\*     duration = (24 * 60) - start_total_minutes + end_total_minutes
\* else: duration = end_total_minutes - start_total_minutes
Duration(start_total_minutes, end_total_minutes) ==
    IF end_total_minutes < start_total_minutes
    THEN (24 * 60) - start_total_minutes + end_total_minutes
    ELSE end_total_minutes - start_total_minutes

\* the four int(...) calls, the two totals and the duration; a ValueError is
\* caught, logged as a warning, and None is returned
ComputeDuration ==
    /\ duration_pc = "split"
    /\ Len(start_parts) >= 2 /\ Len(end_parts) >= 2
    /\ LET start_hour   == ParseInt(start_parts[1])
           start_minute == ParseInt(start_parts[2])
           end_hour     == ParseInt(end_parts[1])
           end_minute   == ParseInt(end_parts[2])
       IN duration' =
             IF start_hour.ok /\ start_minute.ok /\ end_hour.ok /\ end_minute.ok
             THEN [none |-> FALSE,
                   minutes |-> Duration(start_hour.value * 60 + start_minute.value,
                                        end_hour.value * 60 + end_minute.value)]
             ELSE [none |-> TRUE, minutes |-> 0]
    /\ duration_pc' = "done"
    /\ UNCHANGED <<times, start_time, end_time, start_parts, end_parts,
                   outside_duration>>

\* the whole function: the Optional[int] returned
calculate_visit_duration_minutes(st, et) ==
    IF ~st.given \/ st.str = <<>> \/ ~et.given \/ et.str = <<>>
    THEN [none |-> TRUE, minutes |-> 0]
    ELSE LET sp == SplitColon(st.str)
             ep == SplitColon(et.str)
         IN IF Len(sp) < 2 \/ Len(ep) < 2 THEN [none |-> TRUE, minutes |-> 0]
            ELSE IF ParseInt(sp[1]).ok /\ ParseInt(sp[2]).ok
                    /\ ParseInt(ep[1]).ok /\ ParseInt(ep[2]).ok
                 THEN [none |-> FALSE,
                       minutes |-> Duration(ParseInt(sp[1]).value * 60 + ParseInt(sp[2]).value,
                                            ParseInt(ep[1]).value * 60 + ParseInt(ep[2]).value)]
                 ELSE [none |-> TRUE, minutes |-> 0]

DurationNext ==
    \/ ReturnNoneMissing
    \/ SplitTimes
    \/ ReturnNoneTooFewParts
    \/ ComputeDuration

DurationSpec == DurationInit /\ [][DurationNext]_vars

-----------------------------------------------------------------------------
(* Properties of calculate_visit_duration_minutes                           *)

\* the time is written as hour:minute, with or without seconds, and both
\* parts are numbers
Parseable(tm) == tm.kind = "time" /\ tm.hour.numeric /\ tm.minute.numeric

\* minutes since midnight, from the hour and the minute the time is written with
MinuteOfDay(tm) == tm.hour.value * 60 + tm.minute.value

\* C15: for two parseable times the result is end minus start in minutes of
\* the day when the end is not before the start, and 1440 minus start plus end
\* when it is; the seconds, written or not, numeric or not, play no part.
C15_DurationFromHoursAndMinutes ==
    duration_pc = "done" /\ Parseable(times.start) /\ Parseable(times.end) =>
        /\ ~duration.none
        /\ MinuteOfDay(times.end) >= MinuteOfDay(times.start) =>
              duration.minutes = MinuteOfDay(times.end) - MinuteOfDay(times.start)
        /\ MinuteOfDay(times.end) < MinuteOfDay(times.start) =>
              duration.minutes = 1440 - MinuteOfDay(times.start) + MinuteOfDay(times.end)
        /\ times.start.hour.value = 9 /\ times.start.minute.value = 0 =>
              /\ times.end.hour.value = 10 /\ times.end.minute.value = 30 =>
                    duration.minutes = 90
              /\ times.end.hour.value = 9 /\ times.end.minute.value = 30 =>
                    duration.minutes = 30
        /\ /\ times.start.hour.value = 23 /\ times.start.minute.value = 0
           /\ times.end.hour.value = 1 /\ times.end.minute.value = 0
           => duration.minutes = 120

\* the visit 23:00:45 to 01:00 has been computed: 120 minutes, past midnight
C15_Witness ==
    /\ duration_pc = "done"
    /\ start_time.str = <<"2", "3", ":", "0", "0", ":", "4", "5">>
    /\ end_time.str = <<"0", "1", ":", "0", "0">>
    /\ duration = [none |-> FALSE, minutes |-> 120]

\* C16: when a time is None or "", has no colon, or has an hour or a minute
\* that is not a number, the call ends (it does not raise) and returns None.
C16_NoneOnMissingOrInvalid ==
    /\ duration_pc \in {"start", "split", "done"}
    /\ duration_pc = "done" =>
          duration = calculate_visit_duration_minutes(start_time, end_time)
    /\ duration_pc = "done" /\ ~(Parseable(times.start) /\ Parseable(times.end)) =>
          duration.none

\* the start "09:xx" is given with a good end: None
C16_Witness ==
    /\ duration_pc = "done" /\ duration.none
    /\ start_time.str = <<"0", "9", ":", "x", "x">>
    /\ end_time.str = <<"1", "0", ":", "3", "0">>
    /\ Len(start_parts) = 2

\* C29: whenever the result is a number, for hour and minute parts that parse
\* as integers, it is a duration of 0 to 1439 minutes; it is never negative.
C29_DurationWithinADay ==
    duration_pc = "done" /\ ~duration.none =>
        duration.minutes >= 0 /\ duration.minutes <= 1439

\* the same for hours written 00 to 23
C29_HoursOfTheDay ==
    /\ times.start.kind = "time" => times.start.hour.value \in 0..23
    /\ times.end.kind = "time" => times.end.hour.value \in 0..23
    => C29_DurationWithinADay

-----------------------------------------------------------------------------
(* Part 5: services/report_pdf_service.py, get_mark_symbol and the day cell *)
(* of build_calendar_weeks.  The symbols are written by ASCII names:        *)
(*   "maru" = the circle            "sankaku" = the triangle                *)
(*   "nijuumaru" = the double circle  "shikaku" = the square                *)
(*   "re" = the katakana RE         "check" = the heavy check mark          *)

MaxMarksPerDay == 3     \* marks stored for one day

MarkTypes == {"CIRCLE", "TRIANGLE", "DOUBLE_CIRCLE", "SQUARE", "CHECK", "UNKNOWN"}

\* mark_map.get(mark, "")
get_mark_symbol(mark) ==
    CASE mark = "CIRCLE" -> <<"maru">>
      [] mark = "TRIANGLE" -> <<"sankaku">>
      [] mark = "DOUBLE_CIRCLE" -> <<"nijuumaru">>
      [] mark = "SQUARE" -> <<"shikaku">>
      [] mark = "CHECK" -> <<"re">>
      [] OTHER -> <<>>

PdfInit ==
    /\ PdfAlone
    /\ marks_for_day \in SeqsUpTo(MarkTypes, MaxMarksPerDay)
    /\ pdf_pc = "day"
    /\ marks_str = <<>>

\* marks_str = "".join([get_mark_symbol(m) for m in marks_for_day])
FillDayCell ==
    /\ pdf_pc = "day"
    /\ marks_str' = Flatten([n \in 1..Len(marks_for_day) |->
                               get_mark_symbol(marks_for_day[n])])
    /\ pdf_pc' = "filled"
    /\ UNCHANGED <<marks_for_day, outside_pdf>>

PdfNext == FillDayCell

PdfSpec == PdfInit /\ [][PdfNext]_vars

\* the symbol the claim gives for each mark type
ClaimedSymbol(mark) ==
    CASE mark = "CIRCLE" -> <<"maru">>
      [] mark = "TRIANGLE" -> <<"sankaku">>
      [] mark = "DOUBLE_CIRCLE" -> <<"nijuumaru">>
      [] mark = "SQUARE" -> <<"shikaku">>
      [] mark = "CHECK" -> <<"check">>
      [] OTHER -> <<>>

\* C17: every mark of the day is written in the cell by the symbol claimed
\* for its type: the circle, the triangle, the double circle, the square,
\* the heavy check mark for CHECK, and nothing for any other type.
C17_MarkSymbols ==
    pdf_pc = "filled" =>
        marks_str = Flatten([n \in 1..Len(marks_for_day) |->
                               ClaimedSymbol(marks_for_day[n])])

-----------------------------------------------------------------------------
(* Part 6: services/report_service.py, generate_visit_marks and             *)
(* regenerate_report_marks, for one report of patient "p1" over January.    *)

MaxVisits == 2      \* rows of soap_records
MaxRuns == 2        \* calls of regenerate_report_marks

\* the dates of the model in their order, as the database compares them
Calendar == <<"2025-01-01", "2025-01-10", "2025-01-20", "2025-01-31", "2025-02-05">>

DayOf(d) == CHOOSE n \in 1..Len(Calendar) : Calendar[n] = d

period_start == "2025-01-01"
period_end == "2025-01-31"

\* a time column of a row: a str, or null
Clock(chars) == [given |-> TRUE, str |-> chars]
Null == [given |-> FALSE, str |-> <<>>]

\* the rows that may be in soap_records: visits of p1 on a day of January of
\* 25 minutes, of 30 minutes and without an end time; a visit of p1 on a
\* second day of January and one in February; a visit of another patient
\* every row holds, as soap_output, the soap record generate_note got from
\* parse_soap_response for the reference note
ReferenceNote == CHOOSE x \in CallTexts : x # <<>> /\ x # BoundaryText

SavedSoap == Sequential[ReferenceNote].soap

VisitRows ==
    {[patient_id |-> "p1", visit_date |-> "2025-01-10",
      start_time |-> Clock(<<"0", "9", ":", "0", "0">>), end_time |-> e,
      soap_output |-> SavedSoap]
        : e \in {Clock(<<"0", "9", ":", "2", "5">>),
                 Clock(<<"0", "9", ":", "3", "0", ":", "0", "0">>), Null}}
    \cup {[patient_id |-> "p1", visit_date |-> "2025-01-20",
           start_time |-> Clock(<<"0", "9", ":", "0", "0">>),
           end_time |-> Clock(<<"0", "9", ":", "2", "5">>), soap_output |-> SavedSoap],
          [patient_id |-> "p1", visit_date |-> "2025-02-05",
           start_time |-> Clock(<<"0", "9", ":", "0", "0">>),
           end_time |-> Clock(<<"0", "9", ":", "2", "5">>), soap_output |-> SavedSoap],
          [patient_id |-> "p2", visit_date |-> "2025-01-10",
           start_time |-> Clock(<<"0", "9", ":", "0", "0">>),
           end_time |-> Clock(<<"0", "9", ":", "2", "5">>), soap_output |-> SavedSoap]}

\* report_visit_marks is a bag of rows: every query on it orders or filters,
\* none depends on the place of a row
RECURSIVE Rows(_)
Rows(marks) ==
    IF marks = <<>> THEN EmptyBag ELSE SetToBag({Head(marks)}) (+) Rows(Tail(marks))

\* the visit_marks a nurse sends with an update of the report: none, manual
\* marks, a manual mark with an auto mark, and a mark of no known type
MarkEdits ==
    {<<>>,
     <<[visit_date |-> "2025-01-10", mark |-> "TRIANGLE"]>>,
     <<[visit_date |-> "2025-01-20", mark |-> "SQUARE"],
       [visit_date |-> "2025-01-20", mark |-> "CIRCLE"]>>,
     <<[visit_date |-> "2025-01-10", mark |-> "BAD"]>>}

NoRun == [entry |-> "none", force |-> FALSE, n |-> 0, raised |-> FALSE, logged |-> FALSE]

\* before ReportService.create: the report is about to be inserted with
\* empty text fields and has no marks
ReportInit ==
    /\ ReportAlone
    /\ visits = <<>>
    /\ report = [inserted |-> FALSE, disease_progress_text |-> <<>>,
                 monitoring_text |-> <<>>]
    /\ report_visit_marks = EmptyBag
    /\ marks_pc = "new"
    /\ soap_response = <<>>
    /\ marks_to_insert = <<>>
    /\ run = NoRun

\* generate_note saves one more row (the services insert rows of
\* soap_records and never delete one or change its date)
AddVisit ==
    /\ marks_pc \in {"new", "idle"}
    /\ Len(visits) < MaxVisits
    /\ \E v \in VisitRows : visits' = Append(visits, v)
    /\ UNCHANGED <<report, report_visit_marks, marks_pc, soap_response,
                   marks_to_insert, run, outside_report>>


\* ReportService.update: a text field is left, cleared or written, and the
\* marks of the dates of visit_marks are replaced by the marks of known type
UpdateReport ==
    /\ marks_pc = "idle"
    /\ \E monitoring_text \in {"None", "", "w"} :
          report' = [report EXCEPT !.monitoring_text =
                        CASE monitoring_text = "None" -> @
                          [] monitoring_text = "" -> <<>>
                          [] monitoring_text = "w" -> <<"w">>]
    /\ \E visit_marks \in MarkEdits :
          LET dates_to_update == {visit_marks[i].visit_date : i \in 1..Len(visit_marks)}
              Kept(m) == m.visit_date \notin dates_to_update
              Known(m) == m.mark \in {"CIRCLE", "TRIANGLE", "DOUBLE_CIRCLE", "SQUARE", "CHECK"}
          IN  report_visit_marks' =
                  [m \in {x \in DOMAIN report_visit_marks : Kept(x)} |-> report_visit_marks[m]]
                  (+) Rows(SelectSeq(visit_marks, Known))
    /\ UNCHANGED <<visits, marks_pc, soap_response, marks_to_insert, run, outside_report>>

\* ReportService.create inserts the row of the report and calls
\* generate_visit_marks for it
CallGenerate ==
    /\ marks_pc = "new"
    /\ report' = [report EXCEPT !.inserted = TRUE]
    /\ run' = [entry |-> "create", force |-> FALSE, n |-> 0, raised |-> FALSE,
               logged |-> FALSE]
    /\ marks_pc' = "fetch"
    /\ soap_response' = <<>>
    /\ marks_to_insert' = <<>>
    /\ UNCHANGED <<visits, report_visit_marks, outside_report>>

\* the test of lines 196 to 212 on the report as it was read, the variant
\* that does not look at force
has_content_ignoring_force(force, rep) ==
    rep.disease_progress_text # <<>> \/ rep.monitoring_text # <<>>

\* the test of lines 196 to 212: without force, a report with text in one of
\* its five text fields is returned as it is
has_content(force, rep) ==
    ~force /\ (rep.disease_progress_text # <<>> \/ rep.monitoring_text # <<>>)

\* regenerate_report_marks: a report with text in it is returned as it is
\* unless force is set (the run goes to its return)
CallRegenerate ==
    /\ marks_pc = "idle"
    /\ run.n < MaxRuns
    /\ \E force \in BOOLEAN :
          /\ run' = [entry |-> "regenerate", force |-> force, n |-> run.n + 1,
                     raised |-> FALSE, logged |-> FALSE]
          /\ marks_pc' = IF has_content(force, report) THEN "skip" ELSE "fetch"
    /\ soap_response' = <<>>
    /\ marks_to_insert' = <<>>
    /\ UNCHANGED <<visits, report, report_visit_marks, outside_report>>

\* the run is over with ReportServiceError
Raised(r) ==
    [entry |-> "none", force |-> FALSE, n |-> r.n, raised |-> TRUE, logged |-> r.logged]

\* the run is over with a return
Returns(r) ==
    [entry |-> "none", force |-> FALSE, n |-> r.n, raised |-> FALSE, logged |-> r.logged]

InPeriod(d) == DayOf(period_start) <= DayOf(d) /\ DayOf(d) <= DayOf(period_end)

Selected(v) == v.patient_id = "p1" /\ InPeriod(v.visit_date)

\* .order("visit_date"): the rows by date, rows of one date in table order
RECURSIVE OrderByVisitDate(_, _)
OrderByVisitDate(rows, n) ==
    IF n > Len(Calendar) THEN <<>>
    ELSE LET OnDay(v) == v.visit_date = Calendar[n]
         IN  SelectSeq(rows, OnDay) \o OrderByVisitDate(rows, n + 1)

\* the query on soap_records; without rows the run returns; a failing query
\* raises ReportServiceError
FetchVisits ==
    /\ marks_pc = "fetch"
    /\ \/ /\ soap_response' = OrderByVisitDate(SelectSeq(visits, Selected), 1)
          /\ marks_pc' = IF soap_response' = <<>> THEN "after" ELSE "compute"
          /\ run' = run
       \/ /\ soap_response' = <<>>
          /\ marks_pc' = "raised"
          /\ run' = run
    /\ UNCHANGED <<visits, report, report_visit_marks, marks_to_insert, outside_report>>

\* the threshold of a short visit, the variant that counts 30 minutes as short
IsShort_inclusive(duration_minutes) ==
    ~duration_minutes.none /\ duration_minutes.minutes <= 30

IsShort(duration_minutes) ==
    ~duration_minutes.none /\ duration_minutes.minutes < 30

\* the inner loop: the first row with both times and a short duration
HasShortVisit(records) ==
    \E i \in 1..Len(records) :
        /\ records[i].start_time.given /\ records[i].start_time.str # <<>>
        /\ records[i].end_time.given /\ records[i].end_time.str # <<>>
        /\ IsShort(calculate_visit_duration_minutes(records[i].start_time,
                                                    records[i].end_time))

\* the marks of one date
MarksOf(visit_date, records) ==
    <<[visit_date |-> visit_date,
       mark |-> IF Len(records) >= 2 THEN "DOUBLE_CIRCLE" ELSE "CIRCLE"]>>
    \o (IF HasShortVisit(records)
        THEN <<[visit_date |-> visit_date, mark |-> "CHECK"]>> ELSE <<>>)

\* visits_by_date and the loop over it, in the order of the calendar
RECURSIVE GenerateMarks(_, _)
GenerateMarks(rows, n) ==
    IF n > Len(Calendar) THEN <<>>
    ELSE LET OnDay(v) == v.visit_date = Calendar[n]
             records == SelectSeq(rows, OnDay)
         IN  (IF records = <<>> THEN <<>> ELSE MarksOf(Calendar[n], records))
             \o GenerateMarks(rows, n + 1)

ComputeMarks ==
    /\ marks_pc = "compute"
    /\ marks_to_insert' = GenerateMarks(soap_response, 1)
    /\ marks_pc' = IF marks_to_insert' = <<>> THEN "after" ELSE "delete"
    /\ UNCHANGED <<visits, report, report_visit_marks, soap_response, run,
                   outside_report>>

AutoMarks == {"CIRCLE", "DOUBLE_CIRCLE", "CHECK"}

\* a delete without the filter on the mark
DeleteMarks_any_mark(table, dates, failed) ==
    LET Kept(m) == ~(m.visit_date \in dates /\ m.mark \notin failed)
    IN  [m \in {x \in DOMAIN table : Kept(x)} |-> table[m]]

\* the deletes of lines 117 to 127: by date and by mark type; the deletes of
\* the types in failed raise and are only logged
DeleteMarks(table, dates, failed) ==
    LET Kept(m) == ~(m.visit_date \in dates /\ m.mark \in AutoMarks \ failed)
    IN  [m \in {x \in DOMAIN table : Kept(x)} |-> table[m]]

DeleteOldMarks ==
    /\ marks_pc = "delete"
    /\ \E failed \in {{}, AutoMarks} :
          report_visit_marks' =
              DeleteMarks(report_visit_marks,
                          {marks_to_insert[i].visit_date : i \in 1..Len(marks_to_insert)},
                          failed)
    /\ marks_pc' = "insert"
    /\ UNCHANGED <<visits, report, soap_response, marks_to_insert, run, outside_report>>

\* the insert of all marks at once; a failing insert raises ReportServiceError
\* and the locals of the run are gone
InsertMarks ==
    /\ marks_pc = "insert"
    /\ \/ /\ report_visit_marks' = report_visit_marks (+) Rows(marks_to_insert)
          /\ marks_pc' = "after"
          /\ run' = run
          /\ UNCHANGED <<soap_response, marks_to_insert>>
       \/ /\ report_visit_marks' = report_visit_marks
          /\ marks_pc' = "raised"
          /\ run' = run
          /\ soap_response' = <<>>
          /\ marks_to_insert' = <<>>
    /\ UNCHANGED <<visits, report, outside_report>>

\* ReportService.create, lines 1583 to 1591, the variant that lets the
\* ReportServiceError of the mark generation out
except_ReportServiceError_reraised(r) == [pc |-> "idle", run |-> Raised(r)]

\* ReportService.create, lines 1583 to 1591: the ReportServiceError of the
\* mark generation is logged as a warning and create goes on
except_ReportServiceError(r) == [pc |-> "after", run |-> [r EXCEPT !.logged = TRUE]]

\* the ReportServiceError of generate_visit_marks reaches its caller: create
\* catches it, regenerate_report_marks lets it out to the endpoint
HandleError ==
    /\ marks_pc = "raised"
    /\ LET handled == IF run.entry = "create" THEN except_ReportServiceError(run)
                      ELSE [pc |-> "idle", run |-> Raised(run)]
       IN  /\ marks_pc' = handled.pc
           /\ run' = handled.run
    /\ UNCHANGED <<visits, report, report_visit_marks, soap_response, marks_to_insert,
                   outside_report>>

\* record.get(key, default) on a stored dict
Get(record, key, default) == IF key \in DOMAIN record THEN record[key] ELSE default

\* the texts of one row for disease_progress_text: the non-empty values of
\* soap_output.get("A", {}), then the notes of the row
PartsOf(record) ==
    LET a_section == Get(Get(record, "soap_output", <<>>), "A", <<>>)
        notes == Get(record, "notes", <<>>)
        Filled(k) == k \in DOMAIN a_section /\ Strip(a_section[k]) # <<>>
    IN  Flatten([n \in 1..Len(a_keys) |->
                    IF Filled(a_keys[n]) THEN <<Strip(a_section[a_keys[n]])>> ELSE <<>>])
        \o (IF Strip(notes) # <<>> THEN <<Strip(notes)>> ELSE <<>>)

\* progress_parts over the rows, the oldest first
RECURSIVE ProgressParts(_)
ProgressParts(records) ==
    IF records = <<>> THEN <<>>
    ELSE PartsOf(Head(records)) \o ProgressParts(Tail(records))

\* "\n".join(progress_parts)
ProgressText(parts) == Join(parts, <<"nl">>)

\* after generate_visit_marks: create, and regenerate_report_marks with force,
\* read the rows of the period again and write disease_progress_text when
\* the rows give text for it; a failure of this part is only logged
AfterGenerate ==
    /\ marks_pc \in {"after", "skip"}
    /\ marks_pc' = "return"
    /\ IF marks_pc = "after" /\ (run.entry = "create" \/ run.force)
       THEN LET records == OrderByVisitDate(SelectSeq(visits, Selected), 1)
                progress_parts == ProgressParts(records)
            IN  \/ report' = IF progress_parts # <<>>
                             THEN [report EXCEPT !.disease_progress_text =
                                                    ProgressText(progress_parts)]
                             ELSE report
                \/ report' = report
       ELSE report' = report
    /\ UNCHANGED <<visits, report_visit_marks, soap_response, marks_to_insert, run,
                   outside_report>>

\* the report is read again and returned
ReturnReport ==
    /\ marks_pc = "return"
    /\ marks_pc' = "idle"
    /\ run' = Returns(run)
    /\ soap_response' = <<>>
    /\ marks_to_insert' = <<>>
    /\ UNCHANGED <<visits, report, report_visit_marks, outside_report>>

ReportNext ==
    \/ AddVisit
    \/ UpdateReport
    \/ CallGenerate
    \/ CallRegenerate
    \/ FetchVisits
    \/ ComputeMarks
    \/ DeleteOldMarks
    \/ InsertMarks
    \/ HandleError
    \/ AfterGenerate
    \/ ReturnReport

ReportSpec == ReportInit /\ [][ReportNext]_vars

\* the visits of the patient on a date of the period, and their minutes
VisitsOn(d) ==
    {i \in 1..Len(visits) : visits[i].patient_id = "p1" /\ visits[i].visit_date = d}

UnderThirty(v) == v.end_time = Clock(<<"0", "9", ":", "2", "5">>)

Generated(d, marks) ==
    Cardinality({i \in 1..Len(marks_to_insert) :
                    marks_to_insert[i].visit_date = d /\ marks_to_insert[i].mark \in marks})

\* C18: once a run has computed its marks, every date of the period with at
\* least one visit has exactly one primary mark, DOUBLE_CIRCLE for two or more
\* visits and CIRCLE for one, and exactly one CHECK if and only if some visit
\* of the date is shorter than 30 minutes (no CHECK for 30 minutes exactly);
\* dates outside the period or without a visit get no mark.
C18_AutoMarkRules ==
    marks_pc \in {"delete", "insert"} =>
        \A n \in 1..Len(Calendar) :
            LET d == Calendar[n]
                on == VisitsOn(d)
            IN  IF InPeriod(d) /\ on # {}
                THEN /\ Generated(d, {"CIRCLE", "DOUBLE_CIRCLE"}) = 1
                     /\ Generated(d, {"DOUBLE_CIRCLE"}) = 1 <=> Cardinality(on) >= 2
                     /\ Generated(d, {"CHECK"}) =
                            (IF \E i \in on : UnderThirty(visits[i]) THEN 1 ELSE 0)
                     /\ Generated(d, {"TRIANGLE", "SQUARE"}) = 0
                ELSE Generated(d, {"CIRCLE", "DOUBLE_CIRCLE", "CHECK", "TRIANGLE", "SQUARE"}) = 0

\* two visits on one date, one of 25 and one of 30 minutes: DOUBLE_CIRCLE and
\* CHECK together
C18_Witness ==
    /\ marks_pc = "insert"
    /\ Len(visits) = 2
    /\ visits[1].visit_date = "2025-01-10" /\ visits[2].visit_date = "2025-01-10"
    /\ visits[1].end_time = Clock(<<"0", "9", ":", "3", "0", ":", "0", "0">>)
    /\ UnderThirty(visits[2])
    /\ marks_to_insert = <<[visit_date |-> "2025-01-10", mark |-> "DOUBLE_CIRCLE"],
                           [visit_date |-> "2025-01-10", mark |-> "CHECK"]>>

\* the TRIANGLE and SQUARE rows of a table, with their numbers
Manual(table) ==
    [m \in {x \in DOMAIN table : x.mark \in {"TRIANGLE", "SQUARE"}} |-> table[m]]

\* C19: no step of a run of generate_visit_marks or regenerate_report_marks
\* creates or deletes a TRIANGLE or SQUARE mark: the manual marks of the
\* report are the same after every step of a run as before it, date by date.
C19_ManualMarksUntouched ==
    [][marks_pc \notin {"new", "idle"} \/ marks_pc' \notin {"new", "idle"} =>
           Manual(report_visit_marks') = Manual(report_visit_marks)]_vars

\* a run has replaced the auto marks of a date that also has a manual mark
C19_Witness ==
    /\ marks_pc = "after"
    /\ run.entry = "regenerate"
    /\ marks_to_insert # <<>>
    /\ \E m, a \in DOMAIN report_visit_marks :
          /\ m.mark = "TRIANGLE"
          /\ a.mark = "CIRCLE"
          /\ m.visit_date = a.visit_date

\* the CIRCLE, DOUBLE_CIRCLE and CHECK rows of a table, with their numbers
Auto(table) == [m \in {x \in DOMAIN table : x.mark \in AutoMarks} |-> table[m]]

\* the marks the rules derive from the rows now in soap_records
Derived == Rows(GenerateMarks(OrderByVisitDate(SelectSeq(visits, Selected), 1), 1))

\* C23: when a run of generate_visit_marks has returned, the auto marks stored
\* for the report are exactly the marks the rules derive from the rows now in
\* the period, each once: no auto mark on a date without a visit, never
\* CIRCLE with DOUBLE_CIRCLE on a date, no mark twice.
C23_StoredMarksAreDerived ==
    marks_pc = "after" => Auto(report_visit_marks) = Derived

\* the part of it that is about marks stored twice
C23_NoDuplicates ==
    marks_pc = "after" => \A m \in DOMAIN report_visit_marks : report_visit_marks[m] = 1

HasText(rep) == rep.disease_progress_text # <<>> \/ rep.monitoring_text # <<>>

C27_CreateSurvivesMarkFailure ==
    [][/\ marks_pc = "raised" /\ run.entry = "create" =>
              /\ marks_pc' = "after"
              /\ run'.logged /\ ~run'.raised
              /\ report'.inserted
              /\ report_visit_marks' = report_visit_marks
       /\ run.entry = "create" /\ marks_pc' = "idle" =>
              /\ marks_pc = "return"
              /\ ~run'.raised
              /\ report'.inserted]_vars

\* create is returning the report although the mark generation failed with
\* visits in the period: the report has no auto mark
C27_Witness ==
    /\ marks_pc = "return"
    /\ run.entry = "create"
    /\ run.logged
    /\ report.inserted
    /\ SelectSeq(visits, Selected) # <<>>
    /\ Auto(report_visit_marks) = EmptyBag

\* pdf_service.map_soap_to_visit_report, lines 106 to 122: the blocks the
\* visit-report PDF takes from a stored row
map_soap_to_visit_report(record_data) ==
    LET stored == Get(record_data, "soap_output", <<>>)
        a == Get(stored, "a", <<>>)
        p == Get(stored, "p", <<>>)
    IN  [s |-> Get(stored, "s", <<>>),
         o |-> Get(stored, "o", <<>>),
         symptom_progression |-> Get(a, "shoujou_suii", <<>>),
         background_factors |-> Get(a, "haikei_youin", <<>>),
         risk_assessment |-> Get(a, "risk_hyouka", <<>>),
         interventions_today |-> Get(p, "honjitsu_enjo", <<>>),
         next_visit_plan |-> Get(p, "jikai_houshin", <<>>)]

\* C30: the assessment text the parser extracted and generate_note saved
\* reaches its consumers: the PDF mapping of every row holds the text of the
\* sub-fields it maps, and when create, or regenerate_report_marks with
\* force, is about to return, disease_progress_text holds the assessment
\* text of every row of the period.
C30_ConsumersReadParserKeys ==
    \A i \in 1..Len(visits) :
        LET record == visits[i]
            written == record.soap_output
        IN  /\ map_soap_to_visit_report(record).s = written.s
            /\ map_soap_to_visit_report(record).symptom_progression = written.a.shoujou_suii
            /\ map_soap_to_visit_report(record).interventions_today = written.p.honjitsu_enjo
            /\ marks_pc = "return" /\ (run.entry = "create" \/ run.force)
                   /\ Selected(record) =>
                   \A k \in AKeys : IsInfix(written.a[k], report.disease_progress_text)

\* the part of it that is about the PDF mapping
C30_PdfMapping ==
    \A i \in 1..Len(visits) :
        /\ map_soap_to_visit_report(visits[i]).s = visits[i].soap_output.s
        /\ map_soap_to_visit_report(visits[i]).symptom_progression
               = visits[i].soap_output.a.shoujou_suii
        /\ map_soap_to_visit_report(visits[i]).next_visit_plan
               = visits[i].soap_output.p.jikai_houshin

-----------------------------------------------------------------------------
(* Part 7: get_ai_service of services/ai_service.py, called from request
   threads. get_ai_service_dependency is a plain def, so the framework runs it
   in its thread pool and several calls can be inside get_ai_service at once;
   the interpreter can switch threads between any two of the steps below.
   OPENAI_API_KEY is configured, so AIService() does not raise. *)

NumThreads == 2
MaxCallsPerThread == 2

Threads == 1..NumThreads

\* a thread that is not inside get_ai_service
Outside == [pc |-> "outside", made |-> 0, calls |-> 0]

AiInit ==
    /\ AiAlone
    /\ ai_service = 0                     \* _ai_service: Optional[AIService] = None
    /\ instances = 0
    /\ returned = {}
    /\ threads = [t \in Threads |-> Outside]

\* a request resolves its dependency: the thread enters get_ai_service
CallGetAiService(t) ==
    /\ threads[t].pc = "outside"
    /\ threads[t].calls < MaxCallsPerThread
    /\ threads' = [threads EXCEPT ![t].pc = "test", ![t].calls = @ + 1]
    /\ UNCHANGED <<ai_service, instances, returned>>
    /\ UNCHANGED outside_ai

\* if _ai_service is None
is_None(global, built) == global = 0

TestGlobal(t) ==
    /\ threads[t].pc = "test"
    /\ threads' = [threads EXCEPT
           ![t].pc = IF is_None(ai_service, instances) THEN "construct" ELSE "return"]
    /\ UNCHANGED <<ai_service, instances, returned>>
    /\ UNCHANGED outside_ai

\* AIService(): a new instance, numbered in the order of construction
ConstructAIService(t) ==
    /\ threads[t].pc = "construct"
    /\ instances' = instances + 1
    /\ threads' = [threads EXCEPT ![t].pc = "assign", ![t].made = instances + 1]
    /\ UNCHANGED <<ai_service, returned>>
    /\ UNCHANGED outside_ai

\* _ai_service = <the new instance>
AssignGlobal(t) ==
    /\ threads[t].pc = "assign"
    /\ ai_service' = threads[t].made
    /\ threads' = [threads EXCEPT ![t].pc = "return", ![t].made = 0]
    /\ UNCHANGED <<instances, returned>>
    /\ UNCHANGED outside_ai

\* return _ai_service: the global is read again
ReturnGlobal(t) ==
    /\ threads[t].pc = "return"
    /\ returned' = returned \cup {ai_service}
    /\ threads' = [threads EXCEPT ![t].pc = "outside"]
    /\ UNCHANGED <<ai_service, instances>>
    /\ UNCHANGED outside_ai

AiNext ==
    \E t \in Threads :
        \/ CallGetAiService(t)
        \/ TestGlobal(t)
        \/ ConstructAIService(t)
        \/ AssignGlobal(t)
        \/ ReturnGlobal(t)

AiSpec == AiInit /\ [][AiNext]_vars

\* C28: over any interleaving of calls of get_ai_service, at most one AIService
\* instance is ever constructed and every call returns that same instance
C28_Singleton == instances <= 1 /\ Cardinality(returned) <= 1

-----------------------------------------------------------------------------
(* Part 8: auto_evaluate_plan of services/plan_service.py, for one plan of
   patient "p1" that runs from 2025-01-01 to 2025-02-28. *)

MaxSlots == 2        \* rows of plan_evaluations of the plan
MaxPlanVisits == 2   \* rows of soap_records of the patient

VISIT_DURATION_THRESHOLD_CIRCLE == 30
VISIT_DURATION_THRESHOLD_CHECK == 60

\* datetime.strptime(d, "%Y-%m-%d") for the dates of the model: the day,
\* counted from 2024-12-31, so that the difference of two is the .days of
\* their timedelta
strptime(d) ==
    CASE d = "2025-01-01" -> 1
      [] d = "2025-01-21" -> 21
      [] d = "2025-01-22" -> 22
      [] d = "2025-01-27" -> 27
      [] d = "2025-01-31" -> 31
      [] d = "2025-02-02" -> 33
      [] d = "2025-02-28" -> 59
      [] d = "2025-03-05" -> 64

abs(n) == IF n < 0 THEN 0 - n ELSE n

start_date == "2025-01-01"
end_date == "2025-02-28"

\* the rows that may be in plan_evaluations: evaluation_date is NOT NULL and
\* a date; result and decided_by as some earlier request left them
EvaluationRows ==
    [evaluation_slot : 1..MaxSlots,
     evaluation_date : {"2025-01-21", "2025-02-02"},
     result : {"CIRCLE"},
     note : {"n"},
     decided_by : {"MANUAL"}]
    \cup
    [evaluation_slot : 1..MaxSlots,
     evaluation_date : {"2025-01-21", "2025-02-02"},
     result : {"NONE"},
     note : {"n"},
     decided_by : {"None"}]

\* the tables of the model: the slots of a plan are 1..n, inserted from the
\* first to the last or from the last to the first; the id of a row is its
\* place in the table
EvaluationTables ==
    {table \in UNION {[1..n -> EvaluationRows] : n \in 0..MaxSlots} :
        \/ \A i \in 1..Len(table) : table[i].evaluation_slot = i
        \/ \A i \in 1..Len(table) : table[i].evaluation_slot = Len(table) + 1 - i}

\* the rows that may be in soap_records: visits of 45 and of 60 minutes on the
\* day halfway between the two evaluation dates, visits of 60 minutes and
\* without an end time on the last day of January, a visit of 25 minutes on
\* 2025-01-22, and a visit of 60 minutes after the end of the plan
PlanVisitRows ==
    {[visit_date |-> "2025-01-27", start_time |-> Clock(<<"0", "9", ":", "0", "0">>),
      end_time |-> Clock(<<"0", "9", ":", "4", "5">>)],
     [visit_date |-> "2025-01-27", start_time |-> Clock(<<"0", "9", ":", "0", "0">>),
      end_time |-> Clock(<<"1", "0", ":", "0", "0">>)],
     [visit_date |-> "2025-01-31", start_time |-> Clock(<<"0", "9", ":", "0", "0">>),
      end_time |-> Clock(<<"1", "0", ":", "0", "0">>)],
     [visit_date |-> "2025-01-31", start_time |-> Clock(<<"0", "9", ":", "0", "0">>),
      end_time |-> Null],
     [visit_date |-> "2025-01-22", start_time |-> Clock(<<"0", "9", ":", "0", "0">>),
      end_time |-> Clock(<<"0", "9", ":", "2", "5">>)],
     [visit_date |-> "2025-03-05", start_time |-> Clock(<<"0", "9", ":", "0", "0">>),
      end_time |-> Clock(<<"1", "0", ":", "0", "0">>)]}

\* the visits of the patient, each row once, in the order of their creation
PlanVisitTables ==
    {rows \in UNION {[1..n -> PlanVisitRows] : n \in 0..MaxPlanVisits} :
        \A i, j \in 1..Len(rows) : rows[i] = rows[j] => i = j}

PlanInit ==
    /\ PlanAlone
    /\ plan_evaluations \in EvaluationTables
    /\ plan_visits \in PlanVisitTables
    /\ evaluate_pc = "call"
    /\ plan = <<>>
    /\ plan_records = <<>>
    /\ record_index = 0
    /\ evaluation_results = <<>>
    /\ updated_evaluations = <<>>

\* .order("evaluation_slot") with the id of each row
OrderBySlot(table) ==
    [k \in 1..Len(table) |->
        LET i == CHOOSE i \in 1..Len(table) : table[i].evaluation_slot = k
        IN  [id |-> i,
             evaluation_slot |-> table[i].evaluation_slot,
             evaluation_date |-> table[i].evaluation_date,
             result |-> table[i].result,
             note |-> table[i].note,
             decided_by |-> table[i].decided_by]]

\* PlanService.get_by_id
get_plan_by_id(table) ==
    [start_date |-> start_date, end_date |-> end_date,
     evaluations |-> OrderBySlot(table)]

\* plan = get_plan_by_id(plan_id, user_id); a plan without evaluations is
\* returned as it is
GetPlan ==
    /\ evaluate_pc = "call"
    /\ plan' = get_plan_by_id(plan_evaluations)
    /\ evaluate_pc' = IF Len(plan'.evaluations) = 0 THEN "done" ELSE "records"
    /\ UNCHANGED <<plan_evaluations, plan_visits, plan_records, record_index,
                   evaluation_results, updated_evaluations>>
    /\ UNCHANGED outside_plan

\* .gte("visit_date", date_from).lte("visit_date", date_to)
InPlan(row) ==
    /\ strptime(row.visit_date) >= strptime(start_date)
    /\ strptime(row.visit_date) <= strptime(end_date)

\* .order("visit_date", desc=True).order("created_at", desc=True): the rows
\* at the places of a set, newest first
RECURSIVE NewestFirst(_, _)
NewestFirst(rows, places) ==
    IF places = {} THEN <<>>
    ELSE LET first == CHOOSE i \in places : \A j \in places :
                          \/ strptime(rows[i].visit_date) > strptime(rows[j].visit_date)
                          \/ /\ strptime(rows[i].visit_date) = strptime(rows[j].visit_date)
                             /\ i >= j
         IN  <<rows[first]>> \o NewestFirst(rows, places \ {first})

\* PlanService.get_soap_records_for_plan
get_soap_records_for_plan(rows) ==
    NewestFirst(rows, {i \in 1..Len(rows) : InPlan(rows[i])})

\* soap_records = get_soap_records_for_plan(plan_id, user_id); without
\* records the plan is returned as it is
GetRecords ==
    /\ evaluate_pc = "records"
    /\ plan_records' = get_soap_records_for_plan(plan_visits)
    /\ IF Len(plan_records') = 0
       THEN evaluate_pc' = "done" /\ UNCHANGED record_index
       ELSE evaluate_pc' = "loop" /\ record_index' = 1
    /\ UNCHANGED <<plan_evaluations, plan_visits, plan, evaluation_results,
                   updated_evaluations>>
    /\ UNCHANGED outside_plan

determine_evaluation_result(duration_minutes) ==
    IF duration_minutes.none THEN "NONE"
    ELSE IF duration_minutes.minutes >= VISIT_DURATION_THRESHOLD_CHECK THEN "CIRCLE"
    ELSE IF duration_minutes.minutes >= VISIT_DURATION_THRESHOLD_CIRCLE THEN "CHECK"
    ELSE "NONE"

\* the inner loop over plan["evaluations"]: the slot of the first evaluation
\* whose date is at the least number of days from the visit
RECURSIVE NearestFrom(_, _, _, _, _)
NearestFrom(visit_date, evaluations, n, min_diff, best_slot) ==
    IF n > Len(evaluations) THEN best_slot
    ELSE LET diff == abs(strptime(visit_date) - strptime(evaluations[n].evaluation_date))
         IN  IF min_diff = -1 \/ diff < min_diff
             THEN NearestFrom(visit_date, evaluations, n + 1, diff,
                              evaluations[n].evaluation_slot)
             ELSE NearestFrom(visit_date, evaluations, n + 1, min_diff, best_slot)

\* best_slot of one record; every evaluation of the model has a date, so the
\* slot is never None
BestSlot(visit_date, evaluations) == NearestFrom(visit_date, evaluations, 1, -1, 0)

\* the last record wins
KeepBetter_last(current_result, new_result) == new_result

\* if result == "CIRCLE" or (result == "CHECK" and current_result != "CIRCLE"):
\* what evaluation_results holds for the slot afterwards
KeepBetter(current_result, new_result) ==
    IF new_result = "CIRCLE" \/ (new_result = "CHECK" /\ current_result # "CIRCLE")
    THEN new_result ELSE current_result

\* evaluation_results.get(best_slot, "NONE")
GetResult(results, slot) == IF slot \in DOMAIN results THEN results[slot] ELSE "NONE"

\* one turn of the loop over soap_records
EvaluateRecord ==
    /\ evaluate_pc = "loop"
    /\ LET record == plan_records[record_index]
           new_result == determine_evaluation_result(
                         calculate_visit_duration_minutes(record.start_time,
                                                          record.end_time))
           best_slot == BestSlot(record.visit_date, plan.evaluations)
           kept == KeepBetter(GetResult(evaluation_results, best_slot), new_result)
       IN  evaluation_results' =
               IF new_result = "NONE" \/ kept = "NONE" THEN evaluation_results
               ELSE [s \in DOMAIN evaluation_results \cup {best_slot} |->
                        IF s = best_slot THEN kept ELSE evaluation_results[s]]
    /\ IF record_index = Len(plan_records)
       THEN evaluate_pc' = "build" /\ record_index' = 0
       ELSE evaluate_pc' = "loop" /\ record_index' = record_index + 1
    /\ UNCHANGED <<plan_evaluations, plan_visits, plan, plan_records,
                   updated_evaluations>>
    /\ UNCHANGED outside_plan

\* updated_eval of one evaluation that has a result
UpdatedEval(eval_item, results) ==
    [id |-> eval_item.id,
     evaluation_slot |-> eval_item.evaluation_slot,
     evaluation_date |-> eval_item.evaluation_date,
     result |-> results[eval_item.evaluation_slot],
     note |-> eval_item.note,
     decided_by |-> "AUTO"]

WithResult(eval_item) == eval_item.evaluation_slot \in DOMAIN evaluation_results

\* the loop that fills updated_evaluations; without any the plan is returned
BuildUpdates ==
    /\ evaluate_pc = "build"
    /\ LET chosen == SelectSeq(plan.evaluations, WithResult)
       IN  updated_evaluations' =
               [n \in 1..Len(chosen) |-> UpdatedEval(chosen[n], evaluation_results)]
    /\ evaluate_pc' = IF Len(updated_evaluations') = 0 THEN "done" ELSE "update"
    /\ UNCHANGED <<plan_evaluations, plan_visits, plan, plan_records, record_index,
                   evaluation_results>>
    /\ UNCHANGED outside_plan

\* PlanService.update, one evaluation with an id: the columns of eval_data
\* are written to the row, the other columns of the row stay
eval_data(eval_item, row) ==
    [evaluation_slot |-> eval_item.evaluation_slot,
     evaluation_date |-> eval_item.evaluation_date,
     result |-> eval_item.result,
     note |-> eval_item.note,
     decided_by |-> row.decided_by]

\* PlanService.update(evaluations=...): every evaluation has a slot, a date
\* and an id, so each is written to its row
update_plan(table, evaluations) ==
    [i \in 1..Len(table) |->
        IF \E n \in 1..Len(evaluations) : evaluations[n].id = i
        THEN eval_data(evaluations[CHOOSE n \in 1..Len(evaluations) :
                                       evaluations[n].id = i], table[i])
        ELSE table[i]]

\* plan = update_plan(plan_id, user_id, evaluations=updated_evaluations)
UpdatePlan ==
    /\ evaluate_pc = "update"
    /\ plan_evaluations' = update_plan(plan_evaluations, updated_evaluations)
    /\ plan' = get_plan_by_id(plan_evaluations')
    /\ evaluate_pc' = "done"
    /\ UNCHANGED <<plan_visits, plan_records, record_index, evaluation_results,
                   updated_evaluations>>
    /\ UNCHANGED outside_plan

PlanNext ==
    \/ GetPlan
    \/ GetRecords
    \/ EvaluateRecord
    \/ BuildUpdates
    \/ UpdatePlan

PlanSpec == PlanInit /\ [][PlanNext]_vars

\* C25: every evaluation whose result a run of auto_evaluate_plan changes is
\* stored with decided_by = AUTO
C25_ChangedResultIsAuto ==
    [][\A i \in 1..Len(plan_evaluations) :
           plan_evaluations'[i].result # plan_evaluations[i].result =>
               plan_evaluations'[i].decided_by = "AUTO"]_vars

\* what a visit is worth by its length
Grade(row) ==
    LET minutes == calculate_visit_duration_minutes(row.start_time, row.end_time)
    IN  IF minutes.none THEN "NONE"
        ELSE IF minutes.minutes >= 60 THEN "CIRCLE"
        ELSE IF minutes.minutes >= 30 THEN "CHECK"
        ELSE "NONE"

\* the visits of the plan that count for the evaluation of a slot
Counting(slot) ==
    {j \in 1..Len(plan_visits) :
        /\ InPlan(plan_visits[j])
        /\ Grade(plan_visits[j]) # "NONE"
        /\ BestSlot(plan_visits[j].visit_date, OrderBySlot(plan_evaluations)) = slot}

Best(places) ==
    IF \E j \in places : Grade(plan_visits[j]) = "CIRCLE" THEN "CIRCLE" ELSE "CHECK"

====
